---- MODULE Spec2Model ----
(***************************************************************************)
(* A model of pint/models/timing_model.py: the component registry of       *)
(* TimingModel (add_component, remove_component, change_component_order,   *)
(* get_component_instance) and the aggregation of delay and phase.         *)
(*                                                                         *)
(* A type bucket (an OrderedDict) is the sequence of its items <<key,      *)
(* component>> in iteration order.  Component instances are named by       *)
(* strings; a lookup by "class name" passes a string of ClassNames.        *)
(***************************************************************************)
EXTENDS Integers, Sequences, FiniteSets, TLC

\* ------------------------------------------------------------------ bounds
\* largest order a caller passes explicitly
MaxOrder == 3
\* largest order key add_component may append at
MaxKey == 4
\* ------------------------------------------------- the component instances
DelayInstances == {"d1", "d2", "d3"}
PhaseInstances == {"p1", "p2"}
Instances == DelayInstances \cup PhaseInstances

\* the instances a session constructs: the registry sessions work with three
\* delay components and one phase component, the evaluation sessions with
\* two of each
RegistryPool == {"d1", "d2", "d3", "p1"}
PhasePool == {"d1", "d3", "p1", "p2"}

\* component.__class__.__name__ : d1 and d2 are two instances of one class
ClassOf(c) ==
    CASE c \in {"d1", "d2"} -> "DA"
      [] c = "d3" -> "DB"
      [] c = "p1" -> "PA"
      [] c = "p2" -> "PB"

\* "NoSuch" is a class name no instance has
ClassNames == {"DA", "DB", "PA", "PB", "NoSuch"}

\* inspect.getmro(component.__class__)[-3].__name__
TypeOf(c) ==
    CASE c \in DelayInstances -> "DelayComponent"
      [] c \in PhaseInstances -> "PhaseComponent"

\* order=None
None == -1
OrderInputs == 1..MaxOrder

VARIABLES
    pool,             \* the component instances the session has constructed
    py2,              \* six.PY2: the interpreter the module runs under
    component_types,  \* self.component_types
    type_dict,        \* type name -> getattr(self, type + '_dict')
    parent,           \* component -> (component._parent is the model)
    top_level_params, \* self.top_level_params
    params,           \* component -> component.params
    par,              \* owner -> name -> the Parameter attribute of that name
    deriv_funcs,      \* component -> param name -> component.deriv_funcs[name]
    cache,            \* the attribute "cache" of the model
    scopes,           \* the use_cache calls in progress, the outermost first
    last              \* the last call: its arguments, the state before, its outcome

vars == <<pool, py2, component_types, type_dict, parent,
          top_level_params, params, par, deriv_funcs, cache, scopes, last>>

\* the computation cache
cachevars == <<cache, scopes>>

\* the functions decorated with cache_result: f1 and f2 are two functions
\* of one name
CachedFuncs == {"f1", "f2", "g"}

\* function.__name__
FuncName(fn) == IF fn = "g" THEN "g" ELSE "f"

CachedNames == {FuncName(fn) : fn \in CachedFuncs}

\* no result stored
NotStored == 0

\* the model has no attribute "cache": TimingModel.__init__ sets none.  id
\* tells the Cache instances apart, made counts them, stored are the
\* attributes of the instance, invoked the results of the first invocations
\* since the instance was made
NoCache ==
    [attr |-> "absent", id |-> 0, made |-> 0,
     stored |-> [n \in CachedNames |-> NotStored],
     invoked |-> [fn \in CachedFuncs |-> NotStored]]

\* the parameters and the derivative registrations
parvars == <<top_level_params, params, par, deriv_funcs>>

\* --------------------------------------------------------- parameter names
\* the names of the Parameters the sessions create
ParamNames == {"PSR", "A", "B", "F0"}

\* Parameter.aliases
aliases(name) ==
    CASE name = "PSR" -> <<"PSRJ", "PSRB">>
      [] name = "A" -> <<"AL">>
      [] OTHER -> <<>>

\* the owners of attributes: the model and the components
Owners == {"timing_model"} \cup Instances

\* no attribute of that name
NoParam == [here |-> FALSE, set |-> FALSE, value |-> 0, frozen |-> FALSE]

\* a Parameter as constructed: no value yet (value is None), not frozen
NewParam == [here |-> TRUE, set |-> FALSE, value |-> 0, frozen |-> FALSE]

\* no derivative function registered
NoDerivs == [c \in Instances |-> [n \in ParamNames |-> <<>>]]

\* --------------------------------------------------------------- helpers
Range(s) == {s[i] : i \in 1..Len(s)}

\* list(d.keys()), list(d.values()) of a bucket
Keys(d) == [i \in 1..Len(d) |-> d[i][1]]
Values(d) == [i \in 1..Len(d) |-> d[i][2]]

\* list.index(x): the first position of x
Index(s, x) == CHOOSE i \in 1..Len(s) : s[i] = x /\ \A j \in 1..(i-1) : s[j] # x

\* list.remove(x): drop the first occurrence of x
ListRemove(s, x) ==
    LET i == Index(s, x)
    IN  [j \in 1..(Len(s)-1) |-> IF j < i THEN s[j] ELSE s[j+1]]

\* d[k] = v on an (ordered) dict: overwrite in place, or append a new key
DictSet(d, k, v) ==
    IF \E i \in 1..Len(d) : d[i][1] = k
    THEN [i \in 1..Len(d) |-> IF d[i][1] = k THEN <<k, v>> ELSE d[i]]
    ELSE Append(d, <<k, v>>)

\* d[k]
DictGet(d, k) == d[CHOOSE i \in 1..Len(d) : d[i][1] = k][2]

\* OrderedDict(items): the items entered one by one
RECURSIVE OrderedDict(_)
OrderedDict(items) ==
    IF items = <<>> THEN <<>>
    ELSE LET n == Len(items)
         IN  DictSet(OrderedDict(SubSeq(items, 1, n-1)), items[n][1], items[n][2])

\* InsertByKey with the comparison turned round: the sort is descending
InsertByKeyDescending(s, x) ==
    LET n == Cardinality({i \in 1..Len(s) : s[i][1] >= x[1]})
    IN  SubSeq(s, 1, n) \o <<x>> \o SubSeq(s, n+1, Len(s))

\* one step of the stable sort: x goes behind every item whose key is <= its key
InsertByKey(s, x) ==
    LET n == Cardinality({i \in 1..Len(s) : s[i][1] <= x[1]})
    IN  SubSeq(s, 1, n) \o <<x>> \o SubSeq(s, n+1, Len(s))

\* sorted() left out: the items as they come
unsorted(items) == items

\* sorted(items, key=lambda t: t[0])
RECURSIVE sorted(_)
sorted(items) ==
    IF items = <<>> THEN <<>>
    ELSE LET n == Len(items)
         IN  InsertByKey(sorted(SubSeq(items, 1, n-1)), items[n])

\* the record kept of a call until it has returned to the caller
Call(op, arg, order, force, switch, raised) ==
    [op |-> op, arg |-> arg, order |-> order, force |-> force,
     switch |-> switch, raised |-> raised,
     pre_types |-> component_types, pre_dict |-> type_dict,
     pre_parent |-> parent,
     calls |-> <<>>, delay |-> <<>>, pcalls |-> <<>>, result |-> <<>>,
     name |-> "", found |-> "", func |-> "", step |-> 0, fail_at |-> 0,
     columns |-> <<>>, incfrozen |-> FALSE, incoffset |-> FALSE,
     evaluated |-> FALSE, pre_cache |-> cache, pre_scopes |-> scopes,
     pre_top |-> top_level_params, pre_params |-> params, pre_par |-> par,
     pre_deriv |-> deriv_funcs, lines |-> <<>>, events |-> <<>>,
     start_order |-> <<>>, last_order |-> <<>>, doc |-> <<>>,
     pc |-> "", scan |-> <<>>]

NoCall ==
    [op |-> "idle", arg |-> "", order |-> None, force |-> FALSE,
     switch |-> FALSE, raised |-> "",
     pre_types |-> <<>>, pre_dict |-> <<>>, pre_parent |-> <<>>,
     calls |-> <<>>, delay |-> <<>>, pcalls |-> <<>>, result |-> <<>>,
     name |-> "", found |-> "", func |-> "", step |-> 0, fail_at |-> 0,
     columns |-> <<>>, incfrozen |-> FALSE, incoffset |-> FALSE,
     evaluated |-> FALSE, pre_cache |-> <<>>, pre_scopes |-> <<>>,
     pre_top |-> <<>>, pre_params |-> <<>>, pre_par |-> <<>>, pre_deriv |-> <<>>,
     lines |-> <<>>, events |-> <<>>,
     start_order |-> <<>>, last_order |-> <<>>, doc |-> <<>>,
     pc |-> "", scan |-> <<>>]

\* ------------------------------------------------------------------- Init
\* TimingModel.__init__ with components=[]
InitOver(instances) ==
    /\ pool = instances
    /\ py2 \in BOOLEAN
    /\ component_types = <<"DelayComponent", "PhaseComponent">>
    /\ type_dict = [t \in {"DelayComponent", "PhaseComponent"} |-> <<>>]
    /\ parent = [c \in Instances |-> FALSE]
    \* add_param_from_top(strParameter(name="PSR", ...), '')
    /\ top_level_params = <<"PSR">>
    /\ params = [c \in Instances |-> <<>>]
    /\ par = [o \in Owners |-> [n \in ParamNames |->
                 IF o = "timing_model" /\ n = "PSR" THEN NewParam ELSE NoParam]]
    /\ deriv_funcs = NoDerivs
    /\ cache = NoCache
    /\ scopes = <<>>
    /\ last = NoCall

Init == InitOver(RegistryPool)

InitPhase == InitOver(PhasePool)

\* --------------------------------------------------------- the components view
\* TimingModel.components: a dict class name -> component; a later component
\* of the same class replaces the earlier one
RECURSIVE EnterAll(_, _)
EnterAll(comps, cps) ==
    IF cps = <<>> THEN comps
    ELSE EnterAll(DictSet(comps, ClassOf(Head(cps)), Head(cps)), Tail(cps))

RECURSIVE ComponentsOver(_, _, _)
ComponentsOver(types, dicts, comps) ==
    IF types = <<>> THEN comps
    ELSE ComponentsOver(Tail(types), dicts,
                        EnterAll(comps, Values(dicts[Head(types)])))

components == ComponentsOver(component_types, type_dict, <<>>)

\* isinstance(component, str)
IsStr(component) == component \in ClassNames

\* InModelView with an instance looked up by its class name
InModelViewByClass(component) ==
    IF IsStr(component)
    THEN component \in Range(Keys(components))
    ELSE ClassOf(component) \in Range(Keys(components))

\* get_component_instance: the membership test that guards the lookup
InModelView(component) ==
    IF IsStr(component)
    THEN component \in Range(Keys(components))
    ELSE component \in Range(Values(components))

\* get_component_instance: comp, order, comp_type; order is the key of the
\* last item of the bucket whose value is comp
get_component_instance(component) ==
    IF ~InModelView(component)
    THEN [raised |-> "AttributeError", comp |-> "", order |-> None, comp_type |-> ""]
    ELSE LET comp == IF IsStr(component) THEN DictGet(components, component)
                     ELSE component
             d == type_dict[TypeOf(comp)]
             hits == {i \in 1..Len(d) : d[i][2] = comp}
         IN  IF hits = {}
             THEN [raised |-> "UnboundLocalError", comp |-> comp, order |-> None,
                   comp_type |-> TypeOf(comp)]
             ELSE [raised |-> "", comp |-> comp,
                   order |-> d[CHOOSE i \in hits : \A j \in hits : j <= i][1],
                   comp_type |-> TypeOf(comp)]

\* ------------------------------------------------------------ add_component
\* AppendOrder with the first key taken for the last one
AppendOrderFirst(orders) ==
    IF Len(orders) > 0 THEN orders[1] + 1 ELSE 1

\* the key a component is appended at when order is None
AppendOrder(orders) ==
    IF Len(orders) > 0 THEN orders[Len(orders)] + 1 ELSE 1

\* Rejected with the test of force inverted
RejectedWhenForced(comp_classes, component, force) ==
    ClassOf(component) \in comp_classes /\ force

\* the early return: the class is already in the bucket and force is not set
Rejected(comp_classes, component, force) ==
    ClassOf(component) \in comp_classes /\ ~force

add_component(component, order, force) ==
    LET comp_type == TypeOf(component)
        types1 == IF comp_type \in Range(component_types) THEN component_types
                  ELSE Append(component_types, comp_type)
        dicts1 == [t \in Range(types1) |->
                     IF t \in DOMAIN type_dict THEN type_dict[t] ELSE <<>>]
        comp_type_dict == dicts1[comp_type]
        orders == Keys(comp_type_dict)
        comp_classes == {ClassOf(c) : c \in Range(Values(comp_type_dict))}
    IN  /\ component_types' = types1
        /\ UNCHANGED <<pool, py2>>
        /\ IF Rejected(comp_classes, component, force)
           THEN /\ type_dict' = dicts1
                /\ parent' = parent
                /\ last' = Call("add_component", component, order, force, FALSE, "")
           ELSE /\ parent' = [parent EXCEPT ![component] = TRUE]
                /\ IF order = None
                   THEN /\ AppendOrder(orders) <= MaxKey
                        /\ type_dict' = [dicts1 EXCEPT ![comp_type] =
                               DictSet(comp_type_dict, AppendOrder(orders), component)]
                        /\ last' = Call("add_component", component, order, force, FALSE, "")
                   ELSE IF ~py2
                   \* component_items is a view of the dict: it has no index()
                   \* and no append()
                   THEN /\ type_dict' = dicts1
                        /\ last' = Call("add_component", component, order, force,
                                        FALSE, "AttributeError")
                   ELSE IF order \in Range(orders)
                   \* component_items[ii][0] += 1 assigns to an item of a tuple
                   THEN /\ type_dict' = dicts1
                        /\ last' = Call("add_component", component, order, force,
                                        FALSE, "TypeError")
                   ELSE /\ type_dict' = [dicts1 EXCEPT ![comp_type] =
                               OrderedDict(sorted(Append(comp_type_dict,
                                                         <<order, component>>)))]
                        /\ last' = Call("add_component", component, order, force, FALSE, "")

\* --------------------------------------------------------- remove_component
remove_component(component) ==
    LET g == get_component_instance(component)
    IN  /\ UNCHANGED <<pool, py2, component_types, parent>>
        /\ IF g.raised # ""
           THEN /\ type_dict' = type_dict
                /\ last' = Call("remove_component", component, None, FALSE, FALSE, g.raised)
           ELSE LET comp_items == type_dict[g.comp_type]
                    removed == ListRemove(comp_items, <<g.order, g.comp>>)
                IN  /\ type_dict' = [type_dict EXCEPT ![g.comp_type] =
                                        OrderedDict(sorted(removed))]
                    /\ last' = Call("remove_component", component, None, FALSE, FALSE, "")

\* --------------------------------------------------- change_component_order
\* the keys moved by one when the component is moved onto an occupied key
order_effected(orders, old_order, new_order) ==
    IF new_order > old_order
    THEN {o \in Range(orders) : o > old_order /\ o <= new_order}
    ELSE {o \in Range(orders) : o < old_order /\ o >= new_order}

factor(old_order, new_order) == IF new_order > old_order THEN -1 ELSE 1

\* the items after switching cmp with the component at new_order
switched(comp_items, cmp, old_order, new_order) ==
    LET other == DictGet(comp_items, new_order)
        affected_comp == <<new_order, other>>
        switched1 == <<new_order, cmp>>
        switched2 == <<old_order, other>>
        s1 == ListRemove(comp_items, affected_comp)
        s2 == Append(s1, switched1)
        s3 == ListRemove(s2, <<old_order, cmp>>)
    IN  Append(s3, switched2)

\* the items after moving cmp onto the occupied key new_order
new_comp_item(comp_items, cmp, old_order, new_order) ==
    LET eff == order_effected(Keys(comp_items), old_order, new_order)
    IN  [i \in 1..Len(comp_items) |->
           IF comp_items[i][1] = old_order THEN <<new_order, cmp>>
           ELSE IF comp_items[i][1] \in eff
           THEN <<comp_items[i][1] + factor(old_order, new_order), comp_items[i][2]>>
           ELSE comp_items[i]]

change_component_order(component, new_order, switch_order) ==
    LET g == get_component_instance(component)
    IN  /\ UNCHANGED <<pool, py2, component_types, parent>>
        /\ IF g.raised # ""
           THEN /\ type_dict' = type_dict
                /\ last' = Call("change_component_order", component, new_order, FALSE,
                                switch_order, g.raised)
           ELSE LET cmp == g.comp
                    old_order == g.order
                    comp_items == type_dict[g.comp_type]
                    orders == Keys(comp_items)
                    items ==
                      IF new_order \notin Range(orders)
                      THEN ListRemove(Append(comp_items, <<new_order, cmp>>),
                                      <<old_order, cmp>>)
                      ELSE IF switch_order
                      THEN switched(comp_items, cmp, old_order, new_order)
                      ELSE new_comp_item(comp_items, cmp, old_order, new_order)
                IN  /\ type_dict' = [type_dict EXCEPT ![g.comp_type] =
                                        OrderedDict(sorted(items))]
                    /\ last' = Call("change_component_order", component, new_order, FALSE,
                                    switch_order, "")

\* ------------------------------------------------------ lookup on its own
lookup(component) ==
    /\ UNCHANGED <<pool, py2, component_types, type_dict, parent>>
    /\ last' = Call("get_component_instance", component, None, FALSE, FALSE,
                    get_component_instance(component).raised)

\* ------------------------------------------------------- delay and phase
\* the batch of the evaluation: three observations at times 0, 1, 2 (seconds)
toas == <<0, 1, 2>>

zeros(n) == [i \in 1..n |-> 0]

\* component.delay_funcs_component: class DA has one delay function, class DB two
delay_funcs_component(c) ==
    IF ClassOf(c) = "DA" THEN <<"constant">> ELSE <<"relative", "drift">>

\* df(toas, delay) at one observation: "constant" is a delay of 10 s,
\* "relative" a delay equal to the delay accumulated so far, "drift" a delay
\* equal to the time of the observation
DelayFunc(f, t, acc) ==
    CASE f = "constant" -> 10
      [] f = "relative" -> acc
      [] f = "drift" -> t

\* TimingModel.delay_funcs: the bound methods <<component, function>>
RECURSIVE delay_funcs_of(_)
delay_funcs_of(cps) ==
    IF cps = <<>> THEN <<>>
    ELSE [i \in 1..Len(delay_funcs_component(Head(cps))) |->
             <<Head(cps), delay_funcs_component(Head(cps))[i]>>]
         \o delay_funcs_of(Tail(cps))

delay_funcs == delay_funcs_of(Values(type_dict["DelayComponent"]))

\* the loop of delay(): delay += df(toas, delay); calls records each call
RECURSIVE RunDelay(_, _, _, _)
RunDelay(dfs, batch, delay, calls) ==
    IF dfs = <<>> THEN [result |-> delay, calls |-> calls]
    ELSE LET df == Head(dfs)
             out == [i \in 1..Len(batch) |-> DelayFunc(df[2], batch[i], delay[i])]
         IN  RunDelay(Tail(dfs), batch,
                      [i \in 1..Len(batch) |-> delay[i] + out[i]],
                      Append(calls, [comp |-> df[1], fn |-> df[2],
                                     acc |-> delay, out |-> out]))

\* TimingModel.delay(toas)
delay(batch) == RunDelay(delay_funcs, batch, zeros(Len(batch)), <<>>)

\* the spin frequency of the phase component (Hz)
F0 == 1
\* a phase is counted in units of 1/PhaseRes cycle
PhaseRes == 4

\* component.phase_funcs_component
phase_funcs_component(c) ==
    IF ClassOf(c) = "PA" THEN <<"spin">> ELSE <<"lag">>

\* pf(toas, delay) at one observation, in units of 1/PhaseRes cycle: "spin" is
\* F0 * (t - delay) cycles, "lag" is (t - delay) / PhaseRes cycles
PhaseFunc(f, t, d) ==
    CASE f = "spin" -> PhaseRes * F0 * (t - d)
      [] f = "lag" -> t - d

RECURSIVE phase_funcs_of(_)
phase_funcs_of(cps) ==
    IF cps = <<>> THEN <<>>
    ELSE [i \in 1..Len(phase_funcs_component(Head(cps))) |->
             <<Head(cps), phase_funcs_component(Head(cps))[i]>>]
         \o phase_funcs_of(Tail(cps))

phase_funcs == phase_funcs_of(Values(type_dict["PhaseComponent"]))

\* numpy.modf: the integer part, truncated toward zero
Trunc(x) == IF x >= 0 THEN x \div PhaseRes ELSE -((-x) \div PhaseRes)

\* Phase(x): integer cycles and a fraction in [-1/2, 1/2] of a cycle
Phase(x) ==
    LET ii == Trunc(x)
        ff == x - ii * PhaseRes
    IN  IF 2 * ff < -PhaseRes THEN [int |-> ii - 1, frac |-> ff + PhaseRes]
        ELSE IF 2 * ff > PhaseRes THEN [int |-> ii + 1, frac |-> ff - PhaseRes]
        ELSE [int |-> ii, frac |-> ff]

\* Phase + Phase
PhaseAdd(a, b) ==
    LET ff == a.frac + b.frac
        ii == Trunc(ff)
    IN  Phase((a.int + b.int + ii) * PhaseRes + (ff - ii * PhaseRes))

\* the loop of phase(): phase += Phase(pf(toas, delay))
RECURSIVE RunPhase(_, _, _, _, _)
RunPhase(pfs, batch, d, phase, pcalls) ==
    IF pfs = <<>> THEN [result |-> phase, pcalls |-> pcalls]
    ELSE LET pf == Head(pfs)
             out == [i \in 1..Len(batch) |-> PhaseFunc(pf[2], batch[i], d[i])]
         IN  RunPhase(Tail(pfs), batch, d,
                      [i \in 1..Len(batch) |-> PhaseAdd(phase[i], Phase(out[i]))],
                      Append(pcalls, [comp |-> pf[1], fn |-> pf[2],
                                      delay |-> d, out |-> out]))

\* phase() handing the phase functions a delay of zero
phase_without_delay(batch) ==
    LET dl == delay(batch)
        ph == RunPhase(phase_funcs, batch, zeros(Len(batch)),
                       [i \in 1..Len(batch) |-> Phase(0)], <<>>)
    IN  [calls |-> dl.calls, delay |-> dl.result, pcalls |-> ph.pcalls,
         result |-> ph.result]

\* TimingModel.phase(toas)
phase(batch) ==
    LET dl == delay(batch)
        ph == RunPhase(phase_funcs, batch, dl.result,
                       [i \in 1..Len(batch) |-> Phase(0)], <<>>)
    IN  [calls |-> dl.calls, delay |-> dl.result, pcalls |-> ph.pcalls,
         result |-> ph.result]

Delay ==
    /\ UNCHANGED cachevars
    /\ UNCHANGED parvars
    /\ last.op = "idle"
    /\ LET r == delay(toas)
       IN  last' = [Call("delay", "", None, FALSE, FALSE, "") EXCEPT
                       !.calls = r.calls, !.result = r.result]
    /\ UNCHANGED <<pool, py2, component_types, type_dict, parent>>

PhaseCall ==
    /\ UNCHANGED cachevars
    /\ UNCHANGED parvars
    /\ last.op = "idle"
    /\ LET r == phase(toas)
       IN  last' = [Call("phase", "", None, FALSE, FALSE, "") EXCEPT
                       !.calls = r.calls, !.delay = r.delay,
                       !.pcalls = r.pcalls, !.result = r.result]
    /\ UNCHANGED <<pool, py2, component_types, type_dict, parent>>

\* ------------------------------------------------ barycentric correction
\* component.category: class DB is the binary model
category(c) ==
    CASE ClassOf(c) = "DA" -> "astrometry"
      [] ClassOf(c) = "DB" -> "binary"
      [] ClassOf(c) = "PA" -> "spindown"
      [] ClassOf(c) = "PB" -> "glitch"

\* the search for the binary model: the key of the item before the first
\* binary component (delay_list[ii - 1] with ii = 0 is the last item), or 0
binary_end_order(delay_list) ==
    LET n == Len(delay_list)
        bins == {i \in 1..n : category(delay_list[i][2]) = "binary"}
        ii == CHOOSE i \in bins : \A j \in bins : i <= j
    IN  IF bins = {} THEN 0
        ELSE IF ii = 1 THEN delay_list[n][1]
        ELSE delay_list[ii - 1][1]

\* the items the summing loop visits before its break
RECURSIVE up_to_order(_, _)
up_to_order(delay_list, end_order) ==
    IF delay_list = <<>> THEN <<>>
    ELSE IF Head(delay_list)[1] > end_order THEN <<>>
    ELSE <<Head(delay_list)>> \o up_to_order(Tail(delay_list), end_order)

\* TimingModel.get_barycentric_correction(toas, last_component_order)
get_barycentric_correction(batch, last_component_order) ==
    LET delay_list == type_dict["DelayComponent"]
        found == binary_end_order(delay_list)
    IN  IF last_component_order = None /\ found = 0 /\ delay_list = <<>>
        \* delay_list[-1] of an empty list
        THEN [raised |-> "IndexError", calls |-> <<>>, result |-> <<>>]
        ELSE LET end_order ==
                     IF last_component_order # None THEN last_component_order
                     ELSE IF found = 0 THEN delay_list[Len(delay_list)][1]
                     ELSE found
                 r == RunDelay(delay_funcs_of(Values(up_to_order(delay_list, end_order))),
                               batch, zeros(Len(batch)), <<>>)
             IN  [raised |-> "", calls |-> r.calls, result |-> r.result]

BarycentricCorrection ==
    /\ UNCHANGED cachevars
    /\ UNCHANGED parvars
    /\ last.op = "idle"
    /\ \E o \in OrderInputs \cup {None} :
          LET r == get_barycentric_correction(toas, o)
          IN  last' = [Call("get_barycentric_correction", "", o, FALSE, FALSE, r.raised)
                          EXCEPT !.calls = r.calls, !.result = r.result]
    /\ UNCHANGED <<pool, py2, component_types, type_dict, parent>>

\* ------------------------------------------------------------ parameters
\* the most Parameters a session attaches, "PSR" included
MaxParams == 3

\* the components a parameter session constructs
ParamPool == {"d1", "d2", "p1"}

\* the names of the Parameters a parameter session attaches
ParamInputs == {"A", "B"}

\* the names a caller asks for: the parameters, two aliases, an unknown name
LookupNames == {"PSR", "A", "B", "AL", "PSRJ", "Z"}

\* the orders in which a list of distinct items can be enumerated
Perms(s) ==
    {q \in [1..Len(s) -> Range(s)] : \A i, j \in 1..Len(s) : q[i] = q[j] => i = j}

\* list(self.components.values()): insertion order on Python 3; the order of
\* a hash table on Python 2
components_values ==
    IF py2 THEN Perms(Values(components)) ELSE {Values(components)}

\* object.__getattribute__(o, name) finds a Parameter
HasAttr(o, name) == name \in ParamNames /\ par[o][name].here

\* search_cmp_attr: the first component, in the order cps, that has the
\* attribute; "" for None
RECURSIVE search_cmp_attr(_, _)
search_cmp_attr(name, cps) ==
    IF cps = <<>> THEN ""
    ELSE IF HasAttr(Head(cps), name) THEN Head(cps)
    ELSE search_cmp_attr(name, Tail(cps))

\* TimingModel.__getattr__: found is the owner of the attribute returned
TimingModel_getattr(name, cps) ==
    IF HasAttr("timing_model", name)
    THEN [raised |-> "", found |-> "timing_model"]
    ELSE LET cp == search_cmp_attr(name, cps)
         IN  IF cp # "" THEN [raised |-> "", found |-> cp]
             ELSE [raised |-> "AttributeError", found |-> ""]

\* Component.__getattr__
Component_getattr(c, name, cps) ==
    IF HasAttr(c, name) THEN [raised |-> "", found |-> c]
    ELSE IF ~parent[c] THEN [raised |-> "AttributeError", found |-> ""]
    ELSE TimingModel_getattr(name, cps)

\* Component.add_param
add_param(c, name) ==
    [raised |-> "",
     params |-> [params EXCEPT ![c] = Append(@, name)],
     par |-> [par EXCEPT ![c][name] = NewParam]]

\* add_param_from_top
add_param_from_top(name, target_component) ==
    IF target_component = ""
    THEN [raised |-> "", top |-> Append(top_level_params, name), params |-> params,
          par |-> [par EXCEPT !["timing_model"][name] = NewParam]]
    ELSE IF target_component \notin Range(Keys(components))
    THEN [raised |-> "AttributeError", top |-> top_level_params,
          params |-> params, par |-> par]
    ELSE LET r == add_param(DictGet(components, target_component), name)
         IN  [raised |-> r.raised, top |-> top_level_params,
              params |-> r.params, par |-> r.par]

\* get_params_mapping: name -> 'timing_model' or the class name of the
\* component, later entries replacing earlier ones
RECURSIVE MapNames(_, _, _)
MapNames(mapping, names, owner) ==
    IF names = <<>> THEN mapping
    ELSE MapNames(DictSet(mapping, Head(names), owner), Tail(names), owner)

RECURSIVE MapComponents(_, _)
MapComponents(mapping, cps) ==
    IF cps = <<>> THEN mapping
    ELSE MapComponents(MapNames(mapping, params[Head(cps)], ClassOf(Head(cps))),
                       Tail(cps))

get_params_mapping(cps) ==
    MapComponents(MapNames(<<>>, top_level_params, "timing_model"), cps)

\* Component.remove_param; the list loses the name before the attribute is
\* read and deleted
Component_remove_param(c, name, cps) ==
    IF name \notin Range(params[c])
    THEN [raised |-> "ValueError", params |-> params, par |-> par]
    ELSE LET removed == [params EXCEPT ![c] = ListRemove(@, name)]
         IN  IF Component_getattr(c, name, cps).raised # "" \/ ~HasAttr(c, name)
             THEN [raised |-> "AttributeError", params |-> removed, par |-> par]
             ELSE [raised |-> "", params |-> removed,
                   par |-> [par EXCEPT ![c][name] = NoParam]]

\* remove_param that first resolves an alias to the primary name
resolve_alias(name, mapping) ==
    LET prim == {n \in Range(Keys(mapping)) : name \in Range(aliases(n))}
    IN  IF name \in Range(Keys(mapping)) \/ prim = {} THEN name
        ELSE CHOOSE n \in prim : TRUE

\* the name remove_param looks up in the mapping
as_given(name, mapping) == name

\* TimingModel.remove_param
remove_param(param, cps) ==
    LET param_map == get_params_mapping(cps)
        name == as_given(param, param_map)
        same == [top |-> top_level_params, params |-> params, par |-> par]
    IN  IF name \notin Range(Keys(param_map))
        THEN [raised |-> "AttributeError"] @@ same
        ELSE IF DictGet(param_map, name) = "timing_model"
        THEN IF ~HasAttr("timing_model", name)
             THEN [raised |-> "AttributeError"] @@ same
             ELSE [raised |-> "", top |-> ListRemove(top_level_params, name),
                   params |-> params,
                   par |-> [par EXCEPT !["timing_model"][name] = NoParam]]
        ELSE LET r == Component_remove_param(
                          DictGet(components, DictGet(param_map, name)), name, cps)
             IN  [raised |-> r.raised, top |-> top_level_params,
                  params |-> r.params, par |-> r.par]

\* -------------------------------------------------------------------- Next
\* the components a bucket holds
Held(dicts) == UNION {Range(Values(dicts[t])) : t \in DOMAIN dicts}

\* Calls are synchronous (one thread): a call starts when the one before it
\* has returned.  A caller does not force-add an instance the model holds.
AddComponent ==
    /\ UNCHANGED cachevars
    /\ UNCHANGED parvars
    /\ last.op = "idle"
    /\ \E c \in pool, o \in OrderInputs \cup {None}, f \in BOOLEAN :
          /\ f => c \notin Held(type_dict)
          /\ add_component(c, o, f)

RemoveComponent ==
    /\ UNCHANGED cachevars
    /\ UNCHANGED parvars
    /\ last.op = "idle"
    /\ \E c \in pool \cup ClassNames : remove_component(c)

ChangeComponentOrder ==
    /\ UNCHANGED cachevars
    /\ UNCHANGED parvars
    /\ last.op = "idle"
    /\ \E c \in pool \cup ClassNames, o \in OrderInputs, s \in BOOLEAN :
          change_component_order(c, o, s)

Lookup ==
    /\ UNCHANGED cachevars
    /\ UNCHANGED parvars
    /\ last.op = "idle"
    /\ \E c \in pool \cup ClassNames : lookup(c)

\* the call has returned (or raised) to its caller
Return ==
    /\ UNCHANGED cachevars
    /\ UNCHANGED parvars
    /\ last.op # "idle"
    /\ last' = NoCall
    /\ UNCHANGED <<pool, py2, component_types, type_dict, parent>>

Next ==
    \/ AddComponent
    \/ RemoveComponent
    \/ ChangeComponentOrder
    \/ Lookup
    \/ Delay
    \/ PhaseCall
    \/ BarycentricCorrection
    \/ Return

Spec == Init /\ [][Next]_vars

SpecPhase == InitPhase /\ [][Next]_vars

\* ------------------------------------------------------ parameter sessions
RECURSIVE SumLen(_, _)
SumLen(lists, S) ==
    IF S = {} THEN 0
    ELSE LET c == CHOOSE x \in S : TRUE
         IN  Len(lists[c]) + SumLen(lists, S \ {c})

\* the number of names in the lists of the model and of the components
ParamCount == Len(top_level_params) + SumLen(params, Instances)

\* add_component(component) or add_component(component, force=True)
AppendComponent ==
    /\ UNCHANGED cachevars
    /\ UNCHANGED parvars
    /\ last.op = "idle"
    /\ \E c \in pool, f \in BOOLEAN :
          /\ f => c \notin Held(type_dict)
          /\ add_component(c, None, f)

\* component.add_param(Parameter(name=n, aliases=aliases(n)))
AddParam ==
    /\ UNCHANGED cachevars
    /\ last.op = "idle"
    /\ ParamCount < MaxParams
    /\ \E c \in pool, n \in ParamInputs :
          LET r == add_param(c, n)
          IN  /\ params' = r.params
              /\ par' = r.par
              /\ last' = [Call("add_param", c, None, FALSE, FALSE, r.raised)
                             EXCEPT !.name = n]
    /\ UNCHANGED <<pool, py2, component_types, type_dict, parent,
                   top_level_params, deriv_funcs>>

\* model.add_param_from_top(Parameter(name=n, ...), target_component)
AddParamFromTop ==
    /\ UNCHANGED cachevars
    /\ last.op = "idle"
    /\ ParamCount < MaxParams
    /\ \E n \in ParamInputs, t \in {""} \cup ClassNames :
          LET r == add_param_from_top(n, t)
          IN  /\ top_level_params' = r.top
              /\ params' = r.params
              /\ par' = r.par
              /\ last' = [Call("add_param_from_top", t, None, FALSE, FALSE, r.raised)
                             EXCEPT !.name = n]
    /\ UNCHANGED <<pool, py2, component_types, type_dict, parent, deriv_funcs>>

\* model.remove_param(name)
RemoveParam ==
    /\ UNCHANGED cachevars
    /\ last.op = "idle"
    /\ \E n \in LookupNames, cps \in components_values :
          LET r == remove_param(n, cps)
          IN  /\ top_level_params' = r.top
              /\ params' = r.params
              /\ par' = r.par
              /\ last' = [Call("remove_param", "", None, FALSE, FALSE, r.raised)
                             EXCEPT !.name = n]
    /\ UNCHANGED <<pool, py2, component_types, type_dict, parent, deriv_funcs>>

\* getattr(model, name)
GetAttr ==
    /\ UNCHANGED cachevars
    /\ last.op = "idle"
    /\ \E n \in LookupNames, cps \in components_values :
          LET r == TimingModel_getattr(n, cps)
          IN  last' = [Call("getattr", "", None, FALSE, FALSE, r.raised)
                          EXCEPT !.name = n, !.found = r.found]
    /\ UNCHANGED <<pool, py2, component_types, type_dict, parent>>
    /\ UNCHANGED parvars

NextParams ==
    \/ AppendComponent
    \/ AddParam
    \/ AddParamFromTop
    \/ RemoveParam
    \/ GetAttr
    \/ Return

InitParams == InitOver(ParamPool)

SpecParams == InitParams /\ [][NextParams]_vars

\* ------------------------------------------------------------ derivatives
\* the most functions a component registers under one parameter
MaxRegs == 2

\* the longest list of derivative functions a session lets grow
MaxFuncs == 5

\* the components a derivative session constructs
DerivPool == {"d1", "d2", "p1"}

\* the methods a component registers as derivative functions
FuncNames == {"f", "g"}

\* the parameters a component class attaches in its constructor
class_params(c) == IF TypeOf(c) = "DelayComponent" THEN <<"A">> ELSE <<"B">>

\* match_param_aliases that knows primary names only
match_param_names(c, alias, cps) ==
    IF alias \in Range(params[c])
    THEN [raised |-> "", pn |-> alias]
    ELSE [raised |-> "", pn |-> ""]

\* match_param_aliases: the primary name, '' when nothing matches
match_param_aliases(c, alias, cps) ==
    IF alias \in Range(params[c])
    THEN [raised |-> "", pn |-> alias]
    ELSE IF \E n \in Range(params[c]) : Component_getattr(c, n, cps).raised # ""
    THEN [raised |-> "AttributeError", pn |-> ""]
    ELSE LET matches == {n \in Range(params[c]) : alias \in Range(aliases(n))}
         IN  IF matches = {} THEN [raised |-> "", pn |-> ""]
             ELSE [raised |-> "", pn |-> CHOOSE n \in matches : TRUE]

\* register_deriv_funcs; func is the bound method <<component, method name>>
register_deriv_funcs(c, func, param, cps) ==
    LET m == match_param_aliases(c, param, cps)
    IN  IF m.raised # "" THEN [raised |-> m.raised, derivs |-> deriv_funcs]
        ELSE IF m.pn = "" THEN [raised |-> "ValueError", derivs |-> deriv_funcs]
        ELSE [raised |-> "",
              derivs |-> [deriv_funcs EXCEPT ![c][m.pn] = Append(@, func)]]

\* one more component of get_deriv_funcs: holder[k] is the component whose
\* list the result holds under k ('deriv_funcs[k] = v' stores the list
\* itself), and 'deriv_funcs[k] += v' extends that list in place
GatherOne(holder, derivs, c) ==
    [holder |-> [k \in ParamNames |->
                    IF holder[k] = "" /\ derivs[c][k] # <<>> THEN c ELSE holder[k]],
     derivs |-> [x \in Instances |-> [k \in ParamNames |->
                    IF holder[k] = x /\ derivs[c][k] # <<>>
                    THEN derivs[x][k] \o derivs[c][k]
                    ELSE derivs[x][k]]]]

RECURSIVE Gather(_, _, _)
Gather(holder, derivs, cps) ==
    IF cps = <<>> THEN [holder |-> holder, derivs |-> derivs]
    ELSE LET g == GatherOne(holder, derivs, Head(cps))
         IN  Gather(g.holder, g.derivs, Tail(cps))

\* get_deriv_funcs: the dict returned (<<>> for a missing key) and the
\* deriv_funcs of the components afterwards
get_deriv_funcs(component_type, derivs) ==
    LET g == Gather([k \in ParamNames |-> ""], derivs,
                    Values(type_dict[component_type]))
    IN  [funcs |-> [k \in ParamNames |->
                      IF g.holder[k] = "" THEN <<>> ELSE g.derivs[g.holder[k]][k]],
         derivs |-> g.derivs]

\* the value a derivative function returns for the observation at time t
DerivFunc(func, t) ==
    LET weight == CASE func = <<"d1", "f">> -> 1 [] func = <<"d1", "g">> -> 2
                    [] func = <<"d2", "f">> -> 4 [] func = <<"d2", "g">> -> 8
                    [] func = <<"d3", "f">> -> 16 [] func = <<"d3", "g">> -> 32
                    [] func = <<"p1", "f">> -> 64 [] func = <<"p1", "g">> -> 128
                    [] func = <<"p2", "f">> -> 256 [] func = <<"p2", "g">> -> 512
    IN  weight * (t + 1)

\* result += df(toas, param, ...) for every df of funcs
RECURSIVE SumDerivs(_, _)
SumDerivs(funcs, batch) ==
    IF funcs = <<>> THEN zeros(Len(batch))
    ELSE LET rest == SumDerivs(Tail(funcs), batch)
         IN  [i \in 1..Len(batch) |-> DerivFunc(Head(funcs), batch[i]) + rest[i]]

\* cp.phase_derivs_wrt_delay of a Phase component
phase_derivs_wrt_delay(c) == <<<<c, "d_phase_d_delay">>>>

RECURSIVE d_phase_d_delay_funcs_of(_)
d_phase_d_delay_funcs_of(cps) ==
    IF cps = <<>> THEN <<>>
    ELSE phase_derivs_wrt_delay(Head(cps)) \o d_phase_d_delay_funcs_of(Tail(cps))

\* TimingModel.d_phase_d_delay_funcs
d_phase_d_delay_funcs == d_phase_d_delay_funcs_of(Values(type_dict["PhaseComponent"]))

\* the value of a phase-wrt-delay function: -F0 at every observation
DPhaseDDelay(func, t) == -F0

RECURSIVE SumDpdd(_, _)
SumDpdd(funcs, batch) ==
    IF funcs = <<>> THEN zeros(Len(batch))
    ELSE LET rest == SumDpdd(Tail(funcs), batch)
         IN  [i \in 1..Len(batch) |-> DPhaseDDelay(Head(funcs), batch[i]) + rest[i]]

\* d_delay_d_param on the components' deriv_funcs derivs
d_delay_d_param(batch, param, cps, derivs) ==
    IF TimingModel_getattr(param, cps).raised # ""
    THEN [raised |-> "AttributeError", calls |-> <<>>, result |-> <<>>,
          derivs |-> derivs]
    ELSE LET delay_derivs == get_deriv_funcs("DelayComponent", derivs)
         IN  IF delay_derivs.funcs[param] = <<>>
             THEN [raised |-> "AttributeError", calls |-> <<>>, result |-> <<>>,
                   derivs |-> delay_derivs.derivs]
             ELSE [raised |-> "", calls |-> delay_derivs.funcs[param],
                   result |-> SumDerivs(delay_derivs.funcs[param], batch),
                   derivs |-> delay_derivs.derivs]

\* d_phase_d_param on the components' deriv_funcs derivs: calls are the
\* derivative functions called, pcalls the phase-wrt-delay functions called
d_phase_d_param_from(batch, param, cps, derivs) ==
    IF TimingModel_getattr(param, cps).raised # ""
    THEN [raised |-> "AttributeError", calls |-> <<>>, pcalls |-> <<>>,
          result |-> <<>>, derivs |-> derivs]
    ELSE LET phase_derivs == get_deriv_funcs("PhaseComponent", derivs)
             delay_derivs == get_deriv_funcs("DelayComponent", phase_derivs.derivs)
         IN  IF phase_derivs.funcs[param] # <<>>
             THEN [raised |-> "", calls |-> phase_derivs.funcs[param], pcalls |-> <<>>,
                   result |-> SumDerivs(phase_derivs.funcs[param], batch),
                   derivs |-> delay_derivs.derivs]
             ELSE LET d_delay_d_p == d_delay_d_param(batch, param, cps,
                                                     delay_derivs.derivs)
                      dpdd_result == SumDpdd(d_phase_d_delay_funcs, batch)
                  IN  IF d_delay_d_p.raised # ""
                      THEN [raised |-> d_delay_d_p.raised, calls |-> <<>>,
                            pcalls |-> <<>>, result |-> <<>>,
                            derivs |-> d_delay_d_p.derivs]
                      ELSE [raised |-> "", calls |-> d_delay_d_p.calls,
                            pcalls |-> d_phase_d_delay_funcs,
                            result |-> [i \in 1..Len(batch) |->
                                dpdd_result[i] * d_delay_d_p.result[i]],
                            derivs |-> d_delay_d_p.derivs]

\* TimingModel.d_phase_d_param
d_phase_d_param(batch, param, cps) ==
    d_phase_d_param_from(batch, param, cps, deriv_funcs)

\* the names given to the derivative operations: the parameters, an alias,
\* an unknown name
DerivNames == {"PSR", "A", "AL", "B", "F0", "Z"}

\* no list has grown beyond the bound
WithinFuncs(derivs) ==
    \A c \in Instances, k \in ParamNames : Len(derivs[c][k]) <= MaxFuncs

\* component.register_deriv_funcs(component.method, param); a method is
\* registered once
RegisterDerivFuncs ==
    /\ UNCHANGED cachevars
    /\ last.op = "idle"
    /\ \E c \in pool, f \in FuncNames, n \in DerivNames, cps \in components_values :
          LET r == register_deriv_funcs(c, <<c, f>>, n, cps)
          IN  /\ \A k \in ParamNames :
                    /\ <<c, f>> \notin Range(deriv_funcs[c][k])
                    /\ Len(deriv_funcs[c][k]) < MaxRegs
              /\ deriv_funcs' = r.derivs
              /\ last' = [Call("register_deriv_funcs", c, None, FALSE, FALSE, r.raised)
                             EXCEPT !.name = n, !.func = f]
    /\ UNCHANGED <<pool, py2, component_types, type_dict, parent,
                   top_level_params, params, par>>

\* model.d_delay_d_param(toas, param)
DDelayDParam ==
    /\ UNCHANGED cachevars
    /\ last.op = "idle"
    /\ \E n \in DerivNames, cps \in components_values :
          LET r == d_delay_d_param(toas, n, cps, deriv_funcs)
          IN  /\ WithinFuncs(r.derivs)
              /\ deriv_funcs' = r.derivs
              /\ last' = [Call("d_delay_d_param", "", None, FALSE, FALSE, r.raised)
                             EXCEPT !.name = n, !.calls = r.calls, !.result = r.result]
    /\ UNCHANGED <<pool, py2, component_types, type_dict, parent,
                   top_level_params, params, par>>

\* model.d_phase_d_param(toas, delay, param)
DPhaseDParam ==
    /\ UNCHANGED cachevars
    /\ last.op = "idle"
    /\ \E n \in DerivNames, cps \in components_values :
          LET r == d_phase_d_param(toas, n, cps)
          IN  /\ WithinFuncs(r.derivs)
              /\ deriv_funcs' = r.derivs
              /\ last' = [Call("d_phase_d_param", "", None, FALSE, FALSE, r.raised)
                             EXCEPT !.name = n, !.calls = r.calls,
                                    !.pcalls = r.pcalls, !.result = r.result]
    /\ UNCHANGED <<pool, py2, component_types, type_dict, parent,
                   top_level_params, params, par>>

NextDeriv ==
    \/ AppendComponent
    \/ RegisterDerivFuncs
    \/ DDelayDParam
    \/ DPhaseDParam
    \/ Return

\* the components are constructed with the parameters plist gives their
\* classes, each with one of the given values; "PSR" is one of psr_values;
\* derivs are the derivative functions the constructors register
InitWith(instances, values, plist, psr_values, derivs) ==
    /\ pool = instances
    /\ py2 \in BOOLEAN
    /\ component_types = <<"DelayComponent", "PhaseComponent">>
    /\ type_dict = [t \in {"DelayComponent", "PhaseComponent"} |-> <<>>]
    /\ parent = [c \in Instances |-> FALSE]
    /\ top_level_params = <<"PSR">>
    /\ params = [c \in Instances |-> IF c \in instances THEN plist[c] ELSE <<>>]
    /\ \E v \in [instances -> values], psr \in psr_values :
          par = [o \in Owners |-> [n \in ParamNames |->
                   IF o = "timing_model"
                   THEN (IF n = "PSR" THEN psr ELSE NoParam)
                   ELSE IF o \in instances /\ n \in Range(plist[o])
                   THEN v[o] ELSE NoParam]]
    /\ deriv_funcs = derivs
    /\ cache = NoCache
    /\ scopes = <<>>
    /\ last = NoCall

\* the components are constructed with the parameters of their classes, each
\* with one of the given values
InitBuilt(instances, values) ==
    InitWith(instances, values, [c \in Instances |-> class_params(c)],
             {NewParam}, NoDerivs)

InitDeriv == InitBuilt(DerivPool, {NewParam})

SpecDeriv == InitDeriv /\ [][NextDeriv]_vars

\* ---------------------------------------------------- numeric derivatives
\* the largest magnitude of a parameter value in a session
MaxValue == 4

\* the components a numeric-derivative session constructs
NumPool == {"d1", "p1"}

\* the step arguments the callers pass
StepInputs == {1, 2}

\* the computation under the perturbed parameter raises at the first or at
\* the second perturbed value, or not at all (0)
FailInputs == {0, 1, 2}

\* the parameter values the components are constructed with: None, 0, 1
ValueInputs == {NewParam, [NewParam EXCEPT !.set = TRUE],
                [NewParam EXCEPT !.set = TRUE, !.value = 1]}

\* the names given to the numeric derivatives
NumNames == {"PSR", "A", "B", "Z"}

\* h = 1.0 * step if ori_value == 0 else ori_value * step
StepOf(ori_value, step) == IF ori_value = 0 THEN step ELSE ori_value * step

\* the calls of the evaluations of self.delay(toas) that completed, and
\* d_delay = (-delay[:,0] + delay[:,1])/2.0/h
NumDelay(evaluations, h) ==
    LET dl == delay(toas)
    IN  [calls |-> IF evaluations = 0 THEN <<>>
                   ELSE IF evaluations = 1 THEN dl.calls ELSE dl.calls \o dl.calls,
         result |-> IF evaluations < 2 THEN <<>>
                    ELSE [i \in 1..Len(toas) |-> (-dl.result[i] + dl.result[i]) \div (2 * h)]]

\* d_delay_d_param_num whose except branch does not restore the value
d_delay_d_param_num_unrestored(param, step, fail_at, cps) ==
    LET g == TimingModel_getattr(param, cps)
        ori_value == par[g.found][param].value
        h == StepOf(ori_value, step)
        same == [par |-> par, calls |-> <<>>]
    IN  IF g.raised # "" THEN [raised |-> "AttributeError", result |-> <<>>] @@ same
        ELSE IF ~par[g.found][param].set
        THEN [raised |-> "", result |-> zeros(Len(toas))] @@ same
        ELSE IF fail_at = 1
        THEN [raised |-> "Exception",
              par |-> [par EXCEPT ![g.found][param].value = ori_value - h]]
             @@ NumDelay(0, h)
        ELSE IF fail_at = 2
        THEN [raised |-> "Exception",
              par |-> [par EXCEPT ![g.found][param].value = ori_value + h]]
             @@ NumDelay(1, h)
        ELSE [raised |-> "", par |-> [par EXCEPT ![g.found][param].value = ori_value]]
             @@ NumDelay(2, h)

\* d_delay_d_param_num without the test of ori_value against None
d_delay_d_param_num_unchecked(param, step, fail_at, cps) ==
    LET g == TimingModel_getattr(param, cps)
        ori_value == par[g.found][param].value
        h == StepOf(ori_value, step)
        same == [par |-> par, calls |-> <<>>]
    IN  IF g.raised # "" THEN [raised |-> "AttributeError", result |-> <<>>] @@ same
        ELSE IF ~par[g.found][param].set
        THEN [raised |-> "TypeError", result |-> <<>>] @@ same
        ELSE [raised |-> IF fail_at # 0 THEN "Exception" ELSE "",
              par |-> [par EXCEPT ![g.found][param].value = ori_value]]
             @@ NumDelay(IF fail_at = 0 THEN 2 ELSE fail_at - 1, h)

\* d_delay_d_param_num: zeros for a parameter without value; the except
\* branch restores the value and raises again
d_delay_d_param_num(param, step, fail_at, cps) ==
    LET g == TimingModel_getattr(param, cps)
        ori_value == par[g.found][param].value
        h == StepOf(ori_value, step)
        same == [par |-> par, calls |-> <<>>]
    IN  IF g.raised # "" THEN [raised |-> "AttributeError", result |-> <<>>] @@ same
        ELSE IF ~par[g.found][param].set
        THEN [raised |-> "", result |-> zeros(Len(toas))] @@ same
        ELSE [raised |-> IF fail_at # 0 THEN "Exception" ELSE "",
              par |-> [par EXCEPT ![g.found][param].value = ori_value]]
             @@ NumDelay(IF fail_at = 0 THEN 2 ELSE fail_at - 1, h)

\* d_phase_d_param_num: None * step is a TypeError; nothing catches what
\* self.phase(toas) raises, and the value stays as the loop set it
d_phase_d_param_num(param, step, fail_at, cps) ==
    LET g == TimingModel_getattr(param, cps)
        ori_value == par[g.found][param].value
        h == StepOf(ori_value, step)
    IN  IF g.raised # "" THEN [raised |-> "AttributeError", par |-> par]
        ELSE IF ~par[g.found][param].set THEN [raised |-> "TypeError", par |-> par]
        ELSE IF fail_at = 1
        THEN [raised |-> "Exception",
              par |-> [par EXCEPT ![g.found][param].value = ori_value - h]]
        ELSE IF fail_at = 2
        THEN [raised |-> "Exception",
              par |-> [par EXCEPT ![g.found][param].value = ori_value + h]]
        ELSE [raised |-> "", par |-> [par EXCEPT ![g.found][param].value = ori_value]]

\* both perturbed values of the parameter are within the bound
WithinValue(param, step, cps) ==
    LET g == TimingModel_getattr(param, cps)
        v == par[g.found][param].value
        h == StepOf(v, step)
    IN  g.raised = "" =>
            /\ v - h \in -MaxValue..MaxValue
            /\ v + h \in -MaxValue..MaxValue

\* model.d_phase_d_param_num(toas, param, step)
DPhaseDParamNum ==
    /\ UNCHANGED cachevars
    /\ last.op = "idle"
    /\ \E n \in NumNames, st \in StepInputs, fa \in FailInputs,
          cps \in components_values :
          LET r == d_phase_d_param_num(n, st, fa, cps)
          IN  /\ WithinValue(n, st, cps)
              /\ par' = r.par
              /\ last' = [Call("d_phase_d_param_num", "", None, FALSE, FALSE, r.raised)
                             EXCEPT !.name = n, !.step = st, !.fail_at = fa]
    /\ UNCHANGED <<pool, py2, component_types, type_dict, parent,
                   top_level_params, params, deriv_funcs>>

\* model.d_delay_d_param_num(toas, param, step)
DDelayDParamNum ==
    /\ UNCHANGED cachevars
    /\ last.op = "idle"
    /\ \E n \in NumNames, st \in StepInputs, fa \in FailInputs,
          cps \in components_values :
          LET r == d_delay_d_param_num(n, st, fa, cps)
          IN  /\ WithinValue(n, st, cps)
              /\ par' = r.par
              /\ last' = [Call("d_delay_d_param_num", "", None, FALSE, FALSE, r.raised)
                             EXCEPT !.name = n, !.step = st, !.fail_at = fa,
                                    !.calls = r.calls, !.result = r.result]
    /\ UNCHANGED <<pool, py2, component_types, type_dict, parent,
                   top_level_params, params, deriv_funcs>>

NextNum ==
    \/ AppendComponent
    \/ DPhaseDParamNum
    \/ DDelayDParamNum
    \/ Return

InitNum == InitBuilt(NumPool, ValueInputs)

SpecNum == InitNum /\ [][NextNum]_vars

\* ---------------------------------------------------------- design matrix
\* the components a fitting session constructs
DesignPool == {"d1", "d2", "p1"}

\* the parameters of the classes of a fitting session: the spin-down
\* component holds "F0"
design_params(c) == IF TypeOf(c) = "DelayComponent" THEN <<"A">> ELSE <<"F0">>

\* a Parameter with value 1, free or frozen
FitValues == {[NewParam EXCEPT !.set = TRUE, !.value = 1, !.frozen = f] : f \in BOOLEAN}

\* TimingModel.params: the top-level names, then the names of the
\* components of the class-name view
RECURSIVE ConcatParams(_, _)
ConcatParams(p, cps) ==
    IF cps = <<>> THEN p ELSE ConcatParams(p \o params[Head(cps)], Tail(cps))

model_params(cps) == ConcatParams(top_level_params, cps)

\* [par for par in self.params if incfrozen or not getattr(self, par).frozen]
RECURSIVE SelectParams(_, _, _)
SelectParams(names, incfrozen, cps) ==
    IF names = <<>> THEN [raised |-> "", names |-> <<>>]
    ELSE LET g == TimingModel_getattr(Head(names), cps)
             rest == SelectParams(Tail(names), incfrozen, cps)
         IN  IF ~incfrozen /\ g.raised # ""
             THEN [raised |-> "AttributeError", names |-> <<>>]
             ELSE IF rest.raised # "" THEN rest
             ELSE IF incfrozen \/ ~par[g.found][Head(names)].frozen
             THEN [raised |-> "", names |-> <<Head(names)>> \o rest.names]
             ELSE rest

\* the columns of M: ones for 'Offset', - d_phase_d_param for a parameter
RECURSIVE Columns(_, _, _)
\* the columns from Head(names) on, q being the derivative for Head(names)
ColumnsFrom(q, names, cps) ==
    IF q.raised # ""
    THEN [raised |-> q.raised, M |-> <<>>, derivs |-> q.derivs]
    ELSE LET rest == Columns(Tail(names), cps, q.derivs)
         IN  [rest EXCEPT !.M = <<[i \in 1..Len(toas) |-> -q.result[i]]>> \o @]

Columns(names, cps, derivs) ==
    IF names = <<>> THEN [raised |-> "", M |-> <<>>, derivs |-> derivs]
    ELSE IF Head(names) = "Offset"
    THEN LET rest == Columns(Tail(names), cps, derivs)
         IN  [rest EXCEPT !.M = <<[i \in 1..Len(toas) |-> 1]>> \o @]
    ELSE CHOOSE r \in {ColumnsFrom(q, names, cps) :
                         q \in {d_phase_d_param_from(toas, Head(names), cps, derivs)}} :
            TRUE

\* M[:, mask] /= F0.value
Scaled(M, names, f0) ==
    [ii \in 1..Len(M) |->
        IF names[ii] = "Offset" THEN M[ii]
        ELSE [i \in 1..Len(toas) |->
                 IF M[ii][i] >= 0 THEN M[ii][i] \div f0 ELSE -((-M[ii][i]) \div f0)]]

\* designmatrix: params, M and the deriv_funcs of the components afterwards
designmatrix(scale_by_F0, incfrozen, incoffset, cps) ==
    LET sel == SelectParams(model_params(cps), incfrozen, cps)
        names == (IF incoffset THEN <<"Offset">> ELSE <<>>) \o sel.names
        f0 == TimingModel_getattr("F0", cps)
        cols == Columns(names, cps, deriv_funcs)
        failed == [columns |-> <<>>, M |-> <<>>, derivs |-> deriv_funcs]
    IN  IF sel.raised # "" THEN [raised |-> sel.raised] @@ failed
        ELSE IF f0.raised # "" THEN [raised |-> "AttributeError"] @@ failed
        ELSE IF cols.raised # ""
        THEN [raised |-> cols.raised, columns |-> <<>>, M |-> <<>>,
              derivs |-> cols.derivs]
        ELSE [raised |-> "", columns |-> names,
              M |-> IF scale_by_F0
                    THEN Scaled(cols.M, names, par[f0.found]["F0"].value)
                    ELSE cols.M,
              derivs |-> cols.derivs]

\* model.designmatrix(toas, scale_by_F0=..., incfrozen=..., incoffset=...)
DesignMatrix ==
    /\ UNCHANGED cachevars
    /\ last.op = "idle"
    /\ \E sc \in BOOLEAN, fr \in BOOLEAN, off \in BOOLEAN, cps \in components_values :
          LET r == designmatrix(sc, fr, off, cps)
          IN  /\ WithinFuncs(r.derivs)
              /\ deriv_funcs' = r.derivs
              /\ last' = [Call("designmatrix", "", None, FALSE, sc, r.raised)
                             EXCEPT !.columns = r.columns, !.result = r.M,
                                    !.incfrozen = fr, !.incoffset = off]
    /\ UNCHANGED <<pool, py2, component_types, type_dict, parent,
                   top_level_params, params, par>>

NextDesign ==
    \/ AppendComponent
    \/ RemoveParam
    \/ DesignMatrix
    \/ Return

\* each constructor registers the method f as the derivative with respect
\* to the parameter of its class
design_derivs ==
    [c \in Instances |-> [n \in ParamNames |->
        IF c \in DesignPool /\ n \in Range(design_params(c))
        THEN <<<<c, "f">>>> ELSE <<>>]]

InitDesign ==
    InitWith(DesignPool, FitValues, [c \in Instances |-> design_params(c)],
             {NewParam, [NewParam EXCEPT !.frozen = TRUE]}, design_derivs)

SpecDesign == InitDesign /\ [][NextDesign]_vars

\* ------------------------------------------------------ computation cache
\* the deepest nesting of use_cache calls
MaxDepth == 2

\* the most Cache instances a session makes
MaxCaches == 2

\* the values a decorated function returns
ResultValues == {1, 2}

\* a new Cache instance: cls()
NewCache(made) ==
    [attr |-> "Cache", id |-> made + 1, made |-> made + 1,
     stored |-> [n \in CachedNames |-> NotStored],
     invoked |-> [fn \in CachedFuncs |-> NotStored]]

\* setattr(args[0], cls.the_cache, None)
CacheNone(made) == [NoCache EXCEPT !.attr = "None", !.made = made]

\* use_cache: the attribute is there and is no Cache instance
installs(attr) == attr = "None"

\* use_cached_results up to the call of function: the frame of the call
\* tells whether this call made the cache
use_cache_enter ==
    IF installs(cache.attr)
    THEN [cache |-> NewCache(cache.made), frame |-> [installed |-> TRUE]]
    ELSE [cache |-> cache, frame |-> [installed |-> FALSE]]

\* use_cached_results when function has returned
use_cache_return(frame) ==
    IF frame.installed THEN CacheNone(cache.made) ELSE cache

\* use_cached_results when function has raised: the exception leaves the
\* wrapper at the call
use_cache_raise(frame) == cache

\* get_cached_result: v is what function returns when it is evaluated
get_cached_result(fn, v) ==
    LET the_func == FuncName(fn)
        seen == [cache.invoked EXCEPT ![fn] = IF @ = NotStored THEN v ELSE @]
    IN  IF cache.attr = "Cache"
        THEN IF cache.stored[the_func] # NotStored
             THEN [evaluated |-> FALSE, result |-> cache.stored[the_func],
                   cache |-> cache]
             ELSE [evaluated |-> TRUE, result |-> v,
                   cache |-> [cache EXCEPT !.stored[the_func] = v, !.invoked = seen]]
        ELSE [evaluated |-> TRUE, result |-> v, cache |-> cache]

\* model.cache = None: the caller enables caching
EnableCache ==
    /\ scopes = <<>>
    /\ cache.attr = "absent"
    /\ cache' = CacheNone(cache.made)
    /\ last' = Call("enable_cache", "", None, FALSE, FALSE, "")
    /\ UNCHANGED <<pool, py2, component_types, type_dict, parent, scopes>>
    /\ UNCHANGED parvars

\* a function decorated with use_cache is called
UseCacheEnter ==
    /\ Len(scopes) < MaxDepth
    /\ use_cache_enter.cache.made <= MaxCaches
    /\ cache' = use_cache_enter.cache
    /\ scopes' = Append(scopes, use_cache_enter.frame)
    /\ last' = Call("use_cache_enter", "", None, FALSE, FALSE, "")
    /\ UNCHANGED <<pool, py2, component_types, type_dict, parent>>
    /\ UNCHANGED parvars

\* the innermost function decorated with use_cache returns
UseCacheReturn ==
    /\ scopes # <<>>
    /\ cache' = use_cache_return(scopes[Len(scopes)])
    /\ scopes' = SubSeq(scopes, 1, Len(scopes) - 1)
    /\ last' = Call("use_cache_exit", "", None, FALSE, FALSE, "")
    /\ UNCHANGED <<pool, py2, component_types, type_dict, parent>>
    /\ UNCHANGED parvars

\* the innermost function decorated with use_cache raises
UseCacheRaise ==
    /\ scopes # <<>>
    /\ cache' = use_cache_raise(scopes[Len(scopes)])
    /\ scopes' = SubSeq(scopes, 1, Len(scopes) - 1)
    /\ last' = Call("use_cache_exit", "", None, FALSE, FALSE, "Exception")
    /\ UNCHANGED <<pool, py2, component_types, type_dict, parent>>
    /\ UNCHANGED parvars

\* a function decorated with cache_result is called on the model
CachedCall ==
    /\ \E fn \in CachedFuncs, v \in ResultValues :
          LET r == get_cached_result(fn, v)
          IN  /\ cache' = r.cache
              /\ last' = [Call("cache_result", "", None, FALSE, FALSE, "")
                             EXCEPT !.func = fn, !.evaluated = r.evaluated,
                                    !.result = r.result]
    /\ UNCHANGED <<pool, py2, component_types, type_dict, parent, scopes>>
    /\ UNCHANGED parvars

NextCache ==
    \/ EnableCache
    \/ UseCacheEnter
    \/ UseCacheReturn
    \/ UseCacheRaise
    \/ CachedCall

InitCache == InitOver({})

SpecCache == InitCache /\ [][NextCache]_vars

\* -------------------------------------------------------- parameter files
MaxRecords == 2

ReadPool == {"d1", "d2", "p1"}

\* a line of the file after strip(): "" is a blank line, "#" a comment line,
\* any other key the first word of the line; repeat is the number appended
\* to the first word (0: none)
Record(key, value) == [key |-> key, value |-> value, repeat |-> 0]

RecordInputs ==
    {Record("", 0), Record("#", 0), Record("A", 1), Record("A", 2),
     Record("AL", 2), Record("B", 1), Record("PSR", 1), Record("Z", 1)}

ParfileInputs == UNION {[1..n -> RecordInputs] : n \in 0..MaxRecords}

\* Parameter.from_parfile_line: the line is consumed when its first word is
\* the name of the parameter or one of its aliases
from_parfile_line(name, l) ==
    l.repeat = 0 /\ l.key \in {name} \cup Range(aliases(name))

\* the number of lines among the first n whose first word is key
RECURSIVE CountKey(_, _, _)
CountKey(lines, n, key) ==
    IF n = 0 THEN 0
    ELSE CountKey(lines, n - 1, key)
         + (IF lines[n].key = key /\ key \notin {"", "#"} THEN 1 ELSE 0)

\* the line as it is dispatched: a name in checked_param gets the number of
\* its repetition appended
Renamed(lines, i) ==
    IF CountKey(lines, i - 1, lines[i].key) > 0
    THEN [lines[i] EXCEPT !.repeat = CountKey(lines, i, lines[i].key)]
    ELSE lines[i]

\* cmp.__getattr__(par) of the host in param_map
HostGetattr(mapping, name, cps) ==
    IF DictGet(mapping, name) = "timing_model"
    THEN TimingModel_getattr(name, cps)
    ELSE Component_getattr(DictGet(components, DictGet(mapping, name)), name, cps)

\* the loop over param_map.keys() for one line; st holds the exception
\* raised, the parameters and the events so far
RECURSIVE Dispatch(_, _, _, _, _, _)
Dispatch(st, mapping, names, i, l, cps) ==
    IF names = <<>> \/ st.raised # "" THEN st
    ELSE LET a == HostGetattr(mapping, Head(names), cps)
             hit == from_parfile_line(Head(names), l)
             st1 == IF a.raised # "" THEN [st EXCEPT !.raised = a.raised]
                    ELSE [st EXCEPT
                            !.events = Append(@, [ev |-> "dispatch", rec |-> i,
                                                  owner |-> a.found,
                                                  name |-> Head(names)]),
                            !.par = IF hit
                                    THEN [@ EXCEPT ![a.found][Head(names)] =
                                            [@ EXCEPT !.set = TRUE,
                                                      !.value = l.value]]
                                    ELSE @]
         IN  Dispatch(st1, mapping, Tail(names), i, l, cps)

\* the loop over the lines of the file
RECURSIVE ReadLines(_, _, _, _, _)
ReadLines(st, mapping, lines, i, cps) ==
    IF i > Len(lines) \/ st.raised # "" THEN st
    ELSE IF lines[i].key \in {"", "#"}
    THEN ReadLines(st, mapping, lines, i + 1, cps)
    ELSE ReadLines(Dispatch(st, mapping, Keys(mapping), i, Renamed(lines, i), cps),
                   mapping, lines, i + 1, cps)

\* TimingModel.setup: cp.setup() for cp in list(self.components.values())
RECURSIVE setup(_, _)
setup(events, cps) ==
    IF cps = <<>> THEN events
    ELSE setup(Append(events, [ev |-> "setup", rec |-> 0, owner |-> Head(cps),
                               name |-> ""]), Tail(cps))

\* read_parfile; param_map.keys() is taken in insertion order, the
\* parameters being set independently of one another
read_parfile(lines, cps) ==
    LET st == ReadLines([raised |-> "", par |-> par, events |-> <<>>],
                        get_params_mapping(cps), lines, 1, cps)
    IN  IF st.raised # "" THEN st
        ELSE [st EXCEPT !.events = setup(@, cps)]

ReadParfile ==
    /\ UNCHANGED cachevars
    /\ last.op = "idle"
    /\ \E lines \in ParfileInputs, cps \in components_values :
          LET r == read_parfile(lines, cps)
          IN  /\ par' = r.par
              /\ last' = [Call("read_parfile", "", None, FALSE, FALSE, r.raised)
                             EXCEPT !.lines = lines, !.events = r.events]
    /\ UNCHANGED <<pool, py2, component_types, type_dict, parent,
                   top_level_params, params, deriv_funcs>>

NextRead ==
    \/ AppendComponent
    \/ ReadParfile
    \/ Return

InitRead == InitBuilt(ReadPool, {NewParam})

SpecRead == InitRead /\ [][NextRead]_vars

WritePool == {"d1", "d2", "d3", "p1"}

\* the arguments of as_parfile: the defaults of line 805 and other lists
SectionInputs ==
    {[start_order |-> <<"astrometry", "spindown", "dispersion">>,
      last_order |-> <<"jump_delay">>],
     [start_order |-> <<"spindown">>, last_order |-> <<"astrometry">>],
     [start_order |-> <<"astrometry">>, last_order |-> <<"astrometry">>],
     [start_order |-> <<>>, last_order |-> <<>>]}

\* get_component_of_category: category -> the list of its components
RECURSIVE get_component_of_category(_, _)
get_component_of_category(cates, cps) ==
    IF cps = <<>> THEN cates
    ELSE LET cat == category(Head(cps))
             cp == IF cat \in Range(Keys(cates))
                   THEN Append(DictGet(cates, cat), Head(cps))
                   ELSE <<Head(cps)>>
         IN  get_component_of_category(DictSet(cates, cat, cp), Tail(cps))

\* result += getattr(o, p).as_parfile_line() for p in names; st holds the
\* exception raised and the lines so far, each the owner and the name of the
\* parameter it renders
RECURSIVE RenderParams(_, _, _, _)
RenderParams(st, o, names, cps) ==
    IF names = <<>> \/ st.raised # "" THEN st
    ELSE LET a == IF o = "timing_model" THEN TimingModel_getattr(Head(names), cps)
                  ELSE Component_getattr(o, Head(names), cps)
             st1 == IF a.raised # "" THEN [st EXCEPT !.raised = a.raised]
                    ELSE [st EXCEPT !.doc = Append(@, <<a.found, Head(names)>>)]
         IN  RenderParams(st1, o, Tail(names), cps)

\* Component.print_par of each component of a list
RECURSIVE print_par(_, _, _)
print_par(st, cp, cps) ==
    IF cp = <<>> \/ st.raised # "" THEN st
    ELSE print_par(RenderParams(st, Head(cp), params[Head(cp)], cps), Tail(cp), cps)

\* the loops over start_order and over last_order
RECURSIVE RenderListed(_, _, _, _)
RenderListed(st, cates_comp, order, cps) ==
    IF order = <<>> \/ st.raised # "" THEN st
    ELSE IF Head(order) \in Range(Keys(cates_comp))
    THEN RenderListed([print_par(st, DictGet(cates_comp, Head(order)), cps)
                          EXCEPT !.printed_cate = Append(@, Head(order)),
                                 !.cat = Head(order)],
                      cates_comp, Tail(order), cps)
    ELSE RenderListed([st EXCEPT !.cat = Head(order)], cates_comp, Tail(order), cps)

\* the loop over the remaining categories; printed_cate.append(cat) reads the
\* variable of the earlier loops, which is unbound when both lists are empty
RECURSIVE RenderOthers(_, _, _, _)
RenderOthers(st, cates_comp, keys, cps) ==
    IF keys = <<>> \/ st.raised # "" THEN st
    ELSE IF Head(keys) \in Range(st.printed_cate)
    THEN RenderOthers(st, cates_comp, Tail(keys), cps)
    ELSE LET st1 == print_par(st, DictGet(cates_comp, Head(keys)), cps)
             st2 == IF st1.raised # "" THEN st1
                    ELSE IF st1.cat = "" THEN [st1 EXCEPT !.raised = "NameError"]
                    ELSE [st1 EXCEPT !.printed_cate = Append(@, st1.cat)]
         IN  RenderOthers(st2, cates_comp, Tail(keys), cps)

\* as_parfile: result_begin + result_middle + result_end; the categories are
\* taken in the order they entered cates_comp
as_parfile(start_order, last_order, cps) ==
    LET cates_comp == get_component_of_category(<<>>, cps)
        new == [raised |-> "", doc |-> <<>>, printed_cate |-> <<>>, cat |-> ""]
        top == RenderParams(new, "timing_model", top_level_params, cps)
        begin == RenderListed(top, cates_comp, start_order, cps)
        end == RenderListed([begin EXCEPT !.doc = <<>>], cates_comp, last_order, cps)
        middle == RenderOthers([end EXCEPT !.doc = <<>>], cates_comp,
                               Keys(cates_comp), cps)
    IN  [raised |-> middle.raised,
         doc |-> IF middle.raised # "" THEN <<>>
                 ELSE begin.doc \o middle.doc \o end.doc]

AsParfile ==
    /\ UNCHANGED cachevars
    /\ UNCHANGED parvars
    /\ last.op = "idle"
    /\ \E o \in SectionInputs, cps \in components_values :
          LET r == as_parfile(o.start_order, o.last_order, cps)
          IN  last' = [Call("as_parfile", "", None, FALSE, FALSE, r.raised)
                          EXCEPT !.start_order = o.start_order,
                                 !.last_order = o.last_order, !.doc = r.doc]
    /\ UNCHANGED <<pool, py2, component_types, type_dict, parent>>

NextWrite ==
    \/ AppendComponent
    \/ AsParfile
    \/ Return

InitWrite == InitBuilt(WritePool, {NewParam})

SpecWrite == InitWrite /\ [][NextWrite]_vars

\* ------------------------------------------- attribute lookup, step by step
LookupPool == {"d1", "d2", "p1"}

\* the frames of a lookup that is still running
Running == {"Component.__getattr__", "TimingModel.__getattr__", "search_cmp_attr"}

\* getattr(cp, name) in place of super(cp.__class__, cp).__getattribute__(name):
\* the probe of a component without the attribute runs its __getattr__
probe_reenters(st) ==
    [st EXCEPT !.pc = "Component.__getattr__", !.arg = Head(st.scan)]

\* search_cmp_attr: the probe raised AttributeError, the loop continues
probe_failed(st) == [st EXCEPT !.scan = Tail(@)]

\* getattr(o, n) is called on the model or on a component
GetAttrBegin ==
    /\ last.op = "idle"
    /\ \E o \in pool \cup {"timing_model"}, n \in LookupNames :
          last' = [Call("__getattr__", o, None, FALSE, FALSE, "") EXCEPT
                      !.name = n,
                      !.pc = IF o = "timing_model" THEN "TimingModel.__getattr__"
                             ELSE "Component.__getattr__"]
    /\ UNCHANGED <<pool, py2, component_types, type_dict, parent>>
    /\ UNCHANGED parvars
    /\ UNCHANGED cachevars

\* Component.__getattr__: the component's own attribute, else the parent's
\* __getattr__, else AttributeError
ComponentGetattr ==
    /\ last.pc = "Component.__getattr__"
    /\ last' = IF HasAttr(last.arg, last.name)
               THEN [last EXCEPT !.pc = "returned", !.found = last.arg]
               ELSE IF ~parent[last.arg]
               THEN [last EXCEPT !.pc = "raised", !.raised = "AttributeError"]
               ELSE [last EXCEPT !.pc = "TimingModel.__getattr__"]
    /\ UNCHANGED <<pool, py2, component_types, type_dict, parent>>
    /\ UNCHANGED parvars
    /\ UNCHANGED cachevars

\* TimingModel.__getattr__: the model's own attribute, else search_cmp_attr
\* over list(self.components.values())
ModelGetattr ==
    /\ last.pc = "TimingModel.__getattr__"
    /\ IF HasAttr("timing_model", last.name)
       THEN last' = [last EXCEPT !.pc = "returned", !.found = "timing_model"]
       ELSE \E cps \in components_values :
               last' = [last EXCEPT !.pc = "search_cmp_attr", !.scan = cps]
    /\ UNCHANGED <<pool, py2, component_types, type_dict, parent>>
    /\ UNCHANGED parvars
    /\ UNCHANGED cachevars

\* one turn of the loop of search_cmp_attr; when the loop ends with cmp None,
\* TimingModel.__getattr__ raises AttributeError
SearchStep ==
    /\ last.pc = "search_cmp_attr"
    /\ last' = IF last.scan = <<>>
               THEN [last EXCEPT !.pc = "raised", !.raised = "AttributeError"]
               ELSE IF HasAttr(Head(last.scan), last.name)
               THEN [last EXCEPT !.pc = "returned", !.found = Head(last.scan)]
               ELSE probe_failed(last)
    /\ UNCHANGED <<pool, py2, component_types, type_dict, parent>>
    /\ UNCHANGED parvars
    /\ UNCHANGED cachevars

\* a step of a lookup in progress
LookupStep ==
    \/ ComponentGetattr
    \/ ModelGetattr
    \/ SearchStep

\* a call that is not in the middle of a lookup returns to its caller
ReturnToCaller ==
    /\ last.pc \notin Running
    /\ Return

NextLookup ==
    \/ AppendComponent
    \/ RemoveComponent
    \/ GetAttrBegin
    \/ LookupStep
    \/ ReturnToCaller

InitLookup == InitBuilt(LookupPool, {NewParam})

\* the interpreter goes on executing a call in progress
SpecLookup == InitLookup /\ [][NextLookup]_vars /\ WF_vars(LookupStep)

\* ====================================================================
\* The claims.  Each is stated of the call held in last: its arguments,
\* the registry before it (last.pre_dict) and the registry after it.
\* ====================================================================
Items(d) == Range(d)
KeySet(d) == Range(Keys(d))
ValueSet(d) == Range(Values(d))
MaxOf(S) == CHOOSE m \in S : \A x \in S : x <= m

\* the bucket of the argument's type, before and after the call
ArgType == TypeOf(last.arg)
PreBucket == IF ArgType \in DOMAIN last.pre_dict THEN last.pre_dict[ArgType] ELSE <<>>
PostBucket == type_dict[ArgType]
OtherBucketsKept ==
    \A t \in DOMAIN last.pre_dict : t # ArgType => type_dict[t] = last.pre_dict[t]

IsAdd == last.op = "add_component"
ClassPresent == ClassOf(last.arg) \in {ClassOf(c) : c \in ValueSet(PreBucket)}
\* the call is not the duplicate-class no-op
Adds == IsAdd /\ ~(ClassPresent /\ ~last.force)

\* the call names an instance the registry held when it was made
OnHeld(op) ==
    /\ last.op = op
    /\ last.arg \in Instances
    /\ last.arg \in ValueSet(PreBucket)

\* the key of the (one) entry of c in bucket d
KeyOf(d, c) == CHOOSE k \in KeySet(d) : <<k, c>> \in Items(d)

\* C1: add_component(c, order=k) with k occupied moves every entry whose key
\* is >= k to key+1 and stores c at k; nothing is overwritten or lost.
C1_ShiftOnCollision ==
    (Adds /\ last.order # None /\ last.order \in KeySet(PreBucket)) =>
        /\ Items(PostBucket) =
              {<<IF it[1] >= last.order THEN it[1] + 1 ELSE it[1], it[2]>> :
                  it \in Items(PreBucket)} \cup {<<last.order, last.arg>>}
        /\ Len(PostBucket) = Len(PreBucket) + 1

\* C2: add_component(c) without order stores c at max(keys)+1, or at 1 in an
\* empty bucket, and every existing entry keeps its key.
C2_AppendAtMaxPlusOne ==
    (Adds /\ last.order = None) =>
        LET k == IF PreBucket = <<>> THEN 1 ELSE MaxOf(KeySet(PreBucket)) + 1
        IN  /\ last.raised = ""
            /\ Items(PostBucket) = Items(PreBucket) \cup {<<k, last.arg>>}
            /\ Len(PostBucket) = Len(PreBucket) + 1
            /\ OtherBucketsKept

\* a component appended to a bucket whose keys have a gap below the maximum
C2_Witness ==
    /\ Adds /\ last.order = None /\ last.raised = ""
    /\ Len(PreBucket) >= 2
    /\ MaxOf(KeySet(PreBucket)) > Len(PreBucket)
    /\ <<MaxOf(KeySet(PreBucket)) + 1, last.arg>> \in Items(PostBucket)

\* C3: add_component(c, order=k) with k unused inserts c at k and leaves every
\* other entry as it was.
C3_InsertAtFreeKey ==
    (Adds /\ last.order # None /\ last.order \notin KeySet(PreBucket)) =>
        /\ Items(PostBucket) = Items(PreBucket) \cup {<<last.order, last.arg>>}
        /\ Len(PostBucket) = Len(PreBucket) + 1
        /\ OtherBucketsKept

C5_RemoveExactlyOne ==
    OnHeld("remove_component") =>
        /\ last.raised = ""
        /\ Items(PostBucket) = Items(PreBucket) \ {<<KeyOf(PreBucket, last.arg), last.arg>>}
        /\ Len(PostBucket) = Len(PreBucket) - 1
        /\ OtherBucketsKept

\* C6: change_component_order(c, new_order) without switch onto an occupied
\* key: the components are the same, c is at new_order, the keys outside the
\* range between the old and the new position are kept, those inside move by
\* one toward the vacated position, and the others keep their relative order.
C6_MakeRoom ==
    (OnHeld("change_component_order") /\ ~last.switch
        /\ last.order \in KeySet(PreBucket)) =>
        LET old == KeyOf(PreBucket, last.arg)
            new == last.order
            lo == IF old < new THEN old ELSE new
            hi == IF old < new THEN new ELSE old
            others == ValueSet(PreBucket) \ {last.arg}
        IN  /\ last.raised = ""
            /\ ValueSet(PostBucket) = ValueSet(PreBucket)
            /\ Len(PostBucket) = Len(PreBucket)
            /\ <<new, last.arg>> \in Items(PostBucket)
            /\ \A c \in others :
                  LET k == KeyOf(PreBucket, c)
                  IN  <<IF k < lo \/ k > hi THEN k
                        ELSE IF old < new THEN k - 1 ELSE k + 1, c>> \in Items(PostBucket)
            /\ \A c1, c2 \in others :
                  KeyOf(PreBucket, c1) < KeyOf(PreBucket, c2)
                      => KeyOf(PostBucket, c1) < KeyOf(PostBucket, c2)
            /\ OtherBucketsKept

\* C7: change_component_order(c, new_order, switch_order=True) onto the key of
\* d puts c at new_order and d at the old key of c, all other entries
\* untouched; onto a free key (either switch setting) only the key of c changes.
C7_SwitchOrRekey ==
    OnHeld("change_component_order") =>
        LET old == KeyOf(PreBucket, last.arg)
            new == last.order
        IN  /\ (last.switch /\ new \in KeySet(PreBucket)) =>
                  LET d == DictGet(PreBucket, new)
                  IN  /\ last.raised = ""
                      /\ Items(PostBucket) =
                            (Items(PreBucket) \ {<<old, last.arg>>, <<new, d>>})
                               \cup {<<new, last.arg>>, <<old, d>>}
                      /\ Len(PostBucket) = Len(PreBucket)
                      /\ OtherBucketsKept
            /\ new \notin KeySet(PreBucket) =>
                  /\ last.raised = ""
                  /\ Items(PostBucket) =
                        (Items(PreBucket) \ {<<old, last.arg>>}) \cup {<<new, last.arg>>}
                  /\ Len(PostBucket) = Len(PreBucket)
                  /\ OtherBucketsKept

\* the argument (an instance, or a class name) names nothing the registry held
NotInModel ==
    IF last.arg \in ClassNames
    THEN \A c \in Held(last.pre_dict) : ClassOf(c) # last.arg
    ELSE last.arg \notin Held(last.pre_dict)

\* C8: looking up a component that is not in the model, by instance or by class
\* name, fails with the lookup error, and remove_component and
\* change_component_order on it leave every bucket unchanged.
C8_UnknownLookupFails ==
    (last.op \in {"get_component_instance", "remove_component", "change_component_order"}
        /\ NotInModel) =>
        /\ last.raised = "AttributeError"
        /\ type_dict = last.pre_dict
        /\ component_types = last.pre_types

\* removing an instance that is not registered while another instance of its
\* class is
C8_Witness ==
    /\ last.op = "remove_component" /\ NotInModel
    /\ last.arg \in Instances
    /\ \E c \in Held(last.pre_dict) : ClassOf(c) = ClassOf(last.arg)
    /\ last.raised = "AttributeError"

\* the items of a set in ascending order of their keys
RECURSIVE ByKey(_)
ByKey(S) ==
    IF S = {} THEN <<>>
    ELSE LET m == CHOOSE it \in S : \A o \in S : it[1] <= o[1]
         IN  <<m>> \o ByKey(S \ {m})

\* the sum, per observation, of the outputs of the first n recorded calls
RECURSIVE SumOuts(_, _)
SumOuts(calls, n) ==
    IF n = 0 THEN zeros(Len(toas))
    ELSE [j \in 1..Len(toas) |-> SumOuts(calls, n - 1)[j] + calls[n].out[j]]

\* the recorded delay calls are those of the Delay bucket in ascending key
\* order, each handed the sum of the outputs before it
DelayCallsInKeyOrder(calls) ==
    LET expected == delay_funcs_of(Values(ByKey(Items(type_dict["DelayComponent"]))))
    IN  /\ Len(calls) = Len(expected)
        /\ \A i \in 1..Len(calls) :
              /\ <<calls[i].comp, calls[i].fn>> = expected[i]
              /\ calls[i].acc = SumOuts(calls, i - 1)
              /\ calls[i].out = [j \in 1..Len(toas) |->
                                    DelayFunc(calls[i].fn, toas[j], calls[i].acc[j])]

\* C9: delay(toas) evaluates the delay functions of the Delay components in
\* ascending order of their keys, hands each the sum of the outputs of the
\* functions before it, and returns the sum of all outputs.
C9_DelayInKeyOrder ==
    last.op = "delay" =>
        /\ DelayCallsInKeyOrder(last.calls)
        /\ last.result = SumOuts(last.calls, Len(last.calls))
        /\ type_dict = last.pre_dict

\* three delay components whose keys are not the order they were appended in:
\* the functions of d3 run first and a later function reads a delay that is
\* not zero
C9_Witness ==
    /\ last.op = "delay"
    /\ Len(type_dict["DelayComponent"]) = 3
    /\ KeySet(type_dict["DelayComponent"]) # 1..3
    /\ last.calls[1].comp = "d3"
    /\ \E i \in 1..Len(last.calls) : last.calls[i].acc # zeros(Len(toas))
    /\ last.result # zeros(Len(toas))

\* a phase in units of 1/PhaseRes cycle
Cycles(ph) == ph.int * PhaseRes + ph.frac

\* C10: phase(toas) computes the whole total delay first and hands that total to
\* every phase function, then sums their outputs; with one delay component of a
\* constant 10 and one phase component of F0 * (t - delay), F0 = 1, at times
\* 0, 1, 2 the total delay is 10, 10, 10 and the phase -10, -9, -8 cycles.
C10_PhaseAfterTotalDelay ==
    last.op = "phase" =>
        LET expected == phase_funcs_of(Values(ByKey(Items(type_dict["PhaseComponent"]))))
            n == Len(last.pcalls)
        IN  /\ DelayCallsInKeyOrder(last.calls)
            /\ last.delay = SumOuts(last.calls, Len(last.calls))
            /\ n = Len(expected)
            /\ \A i \in 1..n :
                  /\ <<last.pcalls[i].comp, last.pcalls[i].fn>> = expected[i]
                  /\ last.pcalls[i].delay = last.delay
                  /\ last.pcalls[i].out = [j \in 1..Len(toas) |->
                        PhaseFunc(last.pcalls[i].fn, toas[j], last.delay[j])]
            /\ \A j \in 1..Len(toas) :
                  /\ Cycles(last.result[j]) = SumOuts(last.pcalls, n)[j]
                  /\ 2 * last.result[j].frac <= PhaseRes
                  /\ 2 * last.result[j].frac >= -PhaseRes
            /\ (Values(type_dict["DelayComponent"]) = <<"d1">>
                  /\ Values(type_dict["PhaseComponent"]) = <<"p1">>) =>
                  /\ toas = <<0, 1, 2>>
                  /\ last.delay = <<10, 10, 10>>
                  /\ last.result = <<[int |-> -10, frac |-> 0], [int |-> -9, frac |-> 0],
                                     [int |-> -8, frac |-> 0]>>

\* the example: the model holds the constant delay and the spin phase only
C10_Witness ==
    /\ last.op = "phase"
    /\ Values(type_dict["DelayComponent"]) = <<"d1">>
    /\ Values(type_dict["PhaseComponent"]) = <<"p1">>
    /\ last.delay = <<10, 10, 10>>
    /\ Len(last.pcalls) = 1
    /\ last.pcalls[1].delay = <<10, 10, 10>>
    /\ Cycles(last.result[1]) = -10 * PhaseRes

\* the Delay components in ascending key order, up to the first binary one
RECURSIVE BeforeBinary(_)
BeforeBinary(cps) ==
    IF cps = <<>> THEN <<>>
    ELSE IF category(Head(cps)) = "binary" THEN <<>>
    ELSE <<Head(cps)>> \o BeforeBinary(Tail(cps))

\* C11: get_barycentric_correction(toas) without a cutoff sums the delay
\* functions of exactly the Delay components before the first binary component
\* (wherever the binary component stands, first included), and of all Delay
\* components when there is no binary one.  (Stated for a registry that holds
\* a Delay component.)
C11_BarycentricBeforeBinary ==
    (last.op = "get_barycentric_correction" /\ last.order = None
        /\ type_dict["DelayComponent"] # <<>>) =>
        LET expected ==
              delay_funcs_of(BeforeBinary(Values(ByKey(Items(type_dict["DelayComponent"])))))
        IN  /\ last.raised = ""
            /\ Len(last.calls) = Len(expected)
            /\ \A i \in 1..Len(expected) :
                  <<last.calls[i].comp, last.calls[i].fn>> = expected[i]
            /\ last.result = SumOuts(last.calls, Len(last.calls))

\* the registered components in registry order: the type buckets in
\* registration order, ascending order key within a bucket
RECURSIVE RegistryOver(_)
RegistryOver(types) ==
    IF types = <<>> THEN <<>>
    ELSE Values(ByKey(Items(type_dict[Head(types)]))) \o RegistryOver(Tail(types))

RegistryOrder == RegistryOver(component_types)

\* C12: looking up on the model a name that is not an attribute of the model
\* itself returns the attribute of the first registered component, in
\* registry order, that has it, and fails with an attribute error when no
\* registered component has it.
C12_LookupInRegistryOrder ==
    (last.op = "getattr" /\ ~HasAttr("timing_model", last.name)) =>
        LET first == search_cmp_attr(last.name, RegistryOrder)
        IN  IF first = "" THEN last.raised = "AttributeError"
            ELSE last.raised = "" /\ last.found = first

\* the aggregate namespace: the top-level list followed by the lists of the
\* registered components
RECURSIVE ListsOf(_, _)
ListsOf(lists, cps) ==
    IF cps = <<>> THEN <<>> ELSE lists[Head(cps)] \o ListsOf(lists, Tail(cps))

NameSpace == top_level_params \o ListsOf(params, RegistryOrder)

NoDuplicates(s) == \A i, j \in 1..Len(s) : s[i] = s[j] => i = j

\* the names and aliases visible to component c before the call
VisibleBefore(c) ==
    LET names == Range(last.pre_params[c]) \cup
                 (IF parent[c]
                  THEN Range(last.pre_top) \cup Range(ListsOf(last.pre_params, RegistryOrder))
                  ELSE {})
    IN  names \cup UNION {Range(aliases(n)) : n \in names}

\* C13: add_param(p) fails with an error and leaves the component's list
\* unchanged when p's name or one of its aliases is already visible in the
\* owning model; in every state the aggregate namespace (top-level names and
\* the names of the registered components) holds no name twice.
C13_NoDuplicateParameter ==
    /\ (last.op = "add_param"
           /\ ({last.name} \cup Range(aliases(last.name))) \cap VisibleBefore(last.arg) # {}) =>
          (last.raised # "" /\ params = last.pre_params)
    /\ NoDuplicates(NameSpace)

\* the call is remove_param and its name is in no list of the model
RemovesUnlisted ==
    /\ last.op = "remove_param"
    /\ last.name \notin Range(last.pre_top)
    /\ \A c \in Range(RegistryOrder) : last.name \notin Range(last.pre_params[c])

NameSpaceBefore == last.pre_top \o ListsOf(last.pre_params, RegistryOrder)

\* the existing parameters of which the name given to the call is an alias
AliasOf ==
    {n \in Range(NameSpaceBefore) : last.name \in Range(aliases(n))}

\* C15: remove_param(a), a an alias and not the primary name of an existing
\* parameter, succeeds: afterwards the parameter is not in the namespace of
\* the model.
C15_RemoveByAlias ==
    (last.op = "remove_param" /\ last.name \notin Range(NameSpaceBefore)
        /\ AliasOf # {}) =>
        /\ last.raised = ""
        /\ \A n \in AliasOf : n \notin Range(NameSpace)

\* the parameter of component c that name denotes: its own name or the
\* parameter it is an alias of; {} when there is none
Denotes(c, name) ==
    {n \in Range(params[c]) : n = name \/ name \in Range(aliases(n))}

\* C16: register_deriv_funcs(fn, param) resolves param through the names and
\* aliases of the component to the primary name and appends fn to the list
\* of that parameter, the functions registered before staying in their
\* order; when param denotes no parameter of the component the call fails
\* with an error and deriv_funcs is unchanged.
C16_RegisterResolvesAlias ==
    last.op = "register_deriv_funcs" =>
        LET c == last.arg
            pns == Denotes(c, last.name)
        IN  IF pns = {}
            THEN last.raised # "" /\ deriv_funcs = last.pre_deriv
            ELSE /\ last.raised = ""
                 /\ \E pn \in pns :
                       deriv_funcs = [last.pre_deriv EXCEPT ![c][pn] =
                                         Append(@, <<c, last.func>>)]

\* a second function registered through the alias "AL" of "A"
C16_Witness ==
    /\ last.op = "register_deriv_funcs"
    /\ last.name = "AL"
    /\ last.raised = ""
    /\ Len(deriv_funcs[last.arg]["A"]) = 2
    /\ deriv_funcs[last.arg]["A"][2] = <<last.arg, last.func>>

\* the derivative functions registered for name by the registered components
\* of one type, before the call
RegisteredFor(component_type, name) ==
    IF name \notin ParamNames THEN {}
    ELSE UNION {Range(last.pre_deriv[c][name]) :
                   c \in Range(Values(type_dict[component_type]))}

\* the name is a parameter of the model
Known(name) == \E cps \in components_values : TimingModel_getattr(name, cps).raised = ""

\* the calls are the functions of S, each one once
EachOnce(calls, S) ==
    /\ Range(calls) = S
    /\ NoDuplicates(calls)

\* the sum of the outputs of the functions of S at the observation at time t
RECURSIVE SumOver(_, _)
SumOver(S, t) ==
    IF S = {} THEN 0
    ELSE LET f == CHOOSE x \in S : TRUE
         IN  DerivFunc(f, t) + SumOver(S \ {f}, t)

\* how a lookup of an unknown parameter fails
UnknownParameterFailure == TimingModel_getattr("Z", <<>>).raised

\* C17: d_delay_d_param(toas, param) returns the sum of the outputs of every
\* derivative function registered for param by a registered Delay component,
\* each function counted once; for a parameter of the model for which no
\* Delay component registers a derivative it fails with an error that is not
\* the failure of an unknown parameter.
C17_DelayDerivativeSum ==
    (last.op = "d_delay_d_param" /\ Known(last.name)) =>
        LET S == RegisteredFor("DelayComponent", last.name)
        IN  IF S = {}
            THEN last.raised # "" /\ last.raised # UnknownParameterFailure
            ELSE /\ last.raised = ""
                 /\ EachOnce(last.calls, S)
                 /\ last.result = [i \in 1..Len(toas) |-> SumOver(S, toas[i])]

\* C18: d_phase_d_param(toas, delay, param) is the sum of the direct
\* derivative functions alone when a registered Phase component registers a
\* derivative for param; otherwise it is the sum of the phase-wrt-delay
\* functions of all Phase components multiplied by d_delay_d_param(param),
\* the sum of the Delay components' derivative functions for param.
C18_DirectOrChainRule ==
    (last.op = "d_phase_d_param" /\ Known(last.name)) =>
        LET direct == RegisteredFor("PhaseComponent", last.name)
            indirect == RegisteredFor("DelayComponent", last.name)
            dpdd == SumDpdd(d_phase_d_delay_funcs, toas)
        IN  /\ direct # {} =>
                  /\ last.raised = ""
                  /\ EachOnce(last.calls, direct)
                  /\ last.pcalls = <<>>
                  /\ last.result = [i \in 1..Len(toas) |-> SumOver(direct, toas[i])]
            /\ (direct = {} /\ indirect # {}) =>
                  /\ last.raised = ""
                  /\ last.pcalls = d_phase_d_delay_funcs
                  /\ last.result = [i \in 1..Len(toas) |->
                                       dpdd[i] * SumOver(indirect, toas[i])]

\* C19: d_phase_d_param_num(toas, param) leaves the value of the parameter
\* as it was before the call, whether it returns or the phase computation
\* raises at the first or at the second perturbed value.
C19_PhaseNumRestores ==
    last.op = "d_phase_d_param_num" => par = last.pre_par

\* the call perturbed a parameter that has a value
Perturbed ==
    /\ Known(last.name)
    /\ \E o \in Owners : last.pre_par[o][last.name].here /\ last.pre_par[o][last.name].set

\* C20: d_delay_d_param_num(toas, param) leaves the value of the parameter
\* as it was before the call on a normal return and when the delay
\* computation fails at the first or at the second perturbed value; the
\* error is raised again after the restore.
C20_DelayNumRestores ==
    last.op = "d_delay_d_param_num" =>
        /\ par = last.pre_par
        /\ (Perturbed /\ last.fail_at # 0) => last.raised = "Exception"
        /\ (Perturbed /\ last.fail_at = 0) => last.raised = ""

\* the delay computation failed at the second perturbed value of "A" = 1
C20_Witness ==
    /\ last.op = "d_delay_d_param_num"
    /\ last.name = "A"
    /\ last.fail_at = 2
    /\ last.raised = "Exception"
    /\ par["d1"]["A"].set /\ par["d1"]["A"].value = 1
    /\ "d1" \in Range(RegistryOrder)

\* the value of the parameter the call names was None before the call
Unset ==
    /\ Known(last.name)
    /\ \A o \in Owners : last.pre_par[o][last.name].here => ~last.pre_par[o][last.name].set

\* C21: d_delay_d_param_num(toas, param) for a parameter whose value is
\* unset returns zeros, one per observation, raises nothing, evaluates no
\* delay function and leaves the parameter as it was.
C21_UnsetGivesZeros ==
    (last.op = "d_delay_d_param_num" /\ Unset) =>
        /\ last.raised = ""
        /\ last.result = zeros(Len(toas))
        /\ last.calls = <<>>
        /\ par = last.pre_par

\* the parameter "A" of the registered component d1 has no value, and the
\* model has a delay function to evaluate
C21_Witness ==
    /\ last.op = "d_delay_d_param_num"
    /\ last.name = "A"
    /\ Unset
    /\ delay_funcs # <<>>
    /\ last.result = zeros(Len(toas))

\* the names of the namespace with their owners: the top-level names, then
\* the names of the registered components in registry order
RECURSIVE OwnedBy(_, _)
OwnedBy(owner, names) ==
    IF names = <<>> THEN <<>>
    ELSE <<<<owner, Head(names)>>>> \o OwnedBy(owner, Tail(names))

RECURSIVE OwnedOver(_)
OwnedOver(cps) ==
    IF cps = <<>> THEN <<>>
    ELSE OwnedBy(Head(cps), params[Head(cps)]) \o OwnedOver(Tail(cps))

OwnedNames == OwnedBy("timing_model", top_level_params) \o OwnedOver(RegistryOrder)

\* the names of the parameters that are listed: all of them with incfrozen,
\* the non-frozen ones without
RECURSIVE Listed(_, _)
Listed(owned, incfrozen) ==
    IF owned = <<>> THEN <<>>
    ELSE IF incfrozen \/ ~par[Head(owned)[1]][Head(owned)[2]].frozen
    THEN <<Head(owned)[2]>> \o Listed(Tail(owned), incfrozen)
    ELSE Listed(Tail(owned), incfrozen)

\* C22: the columns designmatrix returns are the optional 'Offset' column
\* first, then the parameters of the model in namespace order: all of them
\* with incfrozen=True, the non-frozen ones alone with incfrozen=False.
C22_DesignMatrixColumns ==
    (last.op = "designmatrix" /\ last.raised = "") =>
        /\ last.columns = (IF last.incoffset THEN <<"Offset">> ELSE <<>>)
                              \o Listed(OwnedNames, last.incfrozen)
        /\ Len(last.result) = Len(last.columns)

\* C23: entering a use_cache call while no Cache is active on the model
\* installs a new, empty Cache, which stays on the model while the call
\* that installed it runs; entering one while a Cache is active installs
\* nothing: the cache instance stays the same.
C23_EnterInstallsCache ==
    /\ last.op = "use_cache_enter" =>
          IF last.pre_cache.attr # "Cache"
          THEN /\ cache.attr = "Cache"
               /\ cache.id > last.pre_cache.made
               /\ \A n \in CachedNames : cache.stored[n] = NotStored
          ELSE cache = last.pre_cache
    /\ (\E i \in 1..Len(scopes) : scopes[i].installed) => cache.attr = "Cache"

\* C24: when the outermost use_cache call has exited, by return or by
\* raising, no Cache is active on the model; the exit of a nested call
\* leaves the cache as it is.
C24_TeardownAtOutermostExit ==
    last.op = "use_cache_exit" =>
        IF scopes = <<>> THEN cache.attr # "Cache" ELSE cache = last.pre_cache

\* C25: while a Cache is active, a function decorated with cache_result is
\* evaluated on its first invocation and its result stored, and a repeated
\* invocation returns that result without evaluating; while no Cache is
\* active the function is evaluated on every call and nothing is stored.
C25_EvaluatedOncePerScope ==
    last.op = "cache_result" =>
        LET fn == last.func
            pre == last.pre_cache
        IN  IF pre.attr = "Cache"
            THEN IF pre.invoked[fn] = NotStored
                 THEN last.evaluated /\ cache.stored[FuncName(fn)] = last.result
                 ELSE ~last.evaluated /\ last.result = pre.invoked[fn]
            ELSE last.evaluated /\ cache = pre


\* the positions of the events of one kind in the call held in last
EventsOf(kind) == {e \in 1..Len(last.events) : last.events[e].ev = kind}

\* C26: read_parfile dispatches every line that is neither blank nor a
\* comment to every parameter of the namespace, never raises, and calls the
\* setup() of each registered component exactly once, after the last
\* dispatch.
C26_ReadParfileDispatchesAll ==
    last.op = "read_parfile" =>
        /\ last.raised = ""
        /\ \A i \in 1..Len(last.lines) :
              last.lines[i].key \notin {"", "#"} =>
                 \A k \in 1..Len(OwnedNames) :
                    \E e \in EventsOf("dispatch") :
                       /\ last.events[e].rec = i
                       /\ last.events[e].owner = OwnedNames[k][1]
                       /\ last.events[e].name = OwnedNames[k][2]
        /\ \A c \in Range(RegistryOrder) :
              Cardinality({e \in EventsOf("setup") : last.events[e].owner = c}) = 1
        /\ \A e \in EventsOf("setup"), f \in EventsOf("dispatch") : f < e


\* the section of the document a component belongs to: 1 when its category is
\* in start_order, 3 when it is in last_order, 2 otherwise; the top-level
\* parameters are section 0
Section(o) ==
    IF o = "timing_model" THEN 0
    ELSE IF category(o) \in Range(last.start_order) THEN 1
    ELSE IF category(o) \in Range(last.last_order) THEN 3
    ELSE 2

\* the place of the category of a component of section 1 in start_order
StartPlace(o) ==
    CHOOSE i \in 1..Len(last.start_order) : last.start_order[i] = category(o)

\* C27: as_parfile returns a document with the top-level parameters first,
\* then the components of the categories of start_order in that sequence,
\* then the components of the other categories, then the components of the
\* categories of last_order, and every parameter of every registered
\* component is rendered exactly once.
C27_ParfileSections ==
    last.op = "as_parfile" =>
        /\ last.raised = ""
        /\ \A k \in 1..Len(OwnedNames) :
              Cardinality({i \in 1..Len(last.doc) : last.doc[i] = OwnedNames[k]}) = 1
        /\ \A i \in 1..Len(last.doc) : last.doc[i] \in Range(OwnedNames)
        /\ \A i, j \in 1..Len(last.doc) :
              i < j =>
                 /\ Section(last.doc[i][1]) <= Section(last.doc[j][1])
                 /\ Section(last.doc[i][1]) = 1 /\ Section(last.doc[j][1]) = 1
                       => StartPlace(last.doc[i][1]) <= StartPlace(last.doc[j][1])


\* C28: in every state the order keys of each type bucket are pairwise
\* distinct and the bucket iterates in strictly ascending order of key.
C28_KeysStrictlyAscending ==
    \A t \in DOMAIN type_dict :
       \A i, j \in 1..Len(type_dict[t]) :
          i < j => type_dict[t][i][1] < type_dict[t][j][1]


\* a change_component_order has returned and left a bucket of two or more
\* components in another iteration order than before the call
C28_Witness ==
    /\ last.op = "change_component_order"
    /\ last.raised = ""
    /\ \E t \in DOMAIN type_dict :
          /\ Len(type_dict[t]) >= 2
          /\ Len(last.pre_dict[t]) = Len(type_dict[t])
          /\ Values(type_dict[t]) # Values(last.pre_dict[t])


\* C29: every component held in a bucket of the registry is in the
\* components view, is found by a lookup of the instance, and each of its
\* parameter names is in model.params and in get_params_mapping.
C29_HeldIsVisible ==
    \A c \in Held(type_dict) :
       /\ c \in Range(Values(components))
       /\ get_component_instance(c).raised = ""
       /\ get_component_instance(c).comp = c
       /\ \A n \in Range(params[c]) :
             /\ n \in Range(model_params(Values(components)))
             /\ n \in Range(Keys(get_params_mapping(Values(components))))


\* C30: d_delay_d_param and d_phase_d_param, and the get_deriv_funcs they
\* call, leave the deriv_funcs lists of every component as they were before
\* the call.
C30_DerivativesReadOnly ==
    last.op \in {"d_delay_d_param", "d_phase_d_param"} =>
        deriv_funcs = last.pre_deriv


\* no registered component and not the model has the attribute
Undefined(name) ==
    \A o \in Held(type_dict) \cup {"timing_model"} : ~HasAttr(o, name)

\* the lookup has ended, and with AttributeError when it was made on the
\* model or on a registered component for an undefined name
LookupEnded ==
    /\ last.pc \in {"returned", "raised"}
    /\ last.arg \in Held(type_dict) \cup {"timing_model"} /\ Undefined(last.name)
          => last.pc = "raised" /\ last.raised = "AttributeError"

\* C31: every attribute lookup, on the model or on a component, ends after
\* finitely many steps; a lookup on the model or on a registered component
\* of a name that neither the model nor a registered component has ends
\* with AttributeError.
C31_LookupTerminates == (last.pc \in Running) ~> LookupEnded

\* a lookup of an undefined name on a registered component has gone to the
\* parent, through its scan of two or more components, and raised
C31_Witness ==
    /\ last.op = "__getattr__"
    /\ last.pc = "raised"
    /\ last.arg \in Held(type_dict)
    /\ parent[last.arg]
    /\ Undefined(last.name)
    /\ Len(Values(components)) >= 2

====
